---- MODULE Spec2Model ----
(***************************************************************************)
(* Verification model of the hedge-fund orchestration core:                *)
(*   - src/src/main.py           create_workflow, run_hedge_fund           *)
(*   - src/src/utils/report.py   generate_final_report                     *)
(*   - src/src/prompts/loader.py get_prompt_template                       *)
(*   - src/src/llm/models.py     get_model, _get_api_key,                  *)
(*                               _normalize_openai_base_url                *)
(*   - src/app/backend/services/model_list_service.py  the model catalog   *)
(* The state machines share the variable list; each has its own            *)
(* specification (SpecRun, SpecInvoker, SpecPrompt, SpecModel,             *)
(* SpecCatalog) and leaves the other machines' variables unchanged.        *)
(***************************************************************************)
EXTENDS Integers, Sequences, FiniteSets, TLC

VARIABLES
    \* ---- one call of run_hedge_fund -------------------------------------
    pc,               \* "init" | "running" | "invoked" | "returned" | "raised"
    selected_analysts,\* the caller's argument: None or a list of keys
    tickers,          \* the caller's ticker set
    workflow,         \* the StateGraph built by create_workflow
    active,           \* nodes scheduled in the current superstep
    task,             \* per node: "none" | "pending" | "running" | "done"
    runs,             \* per node: [started, finished] counts
    view,             \* per node: the analyst_signals it was handed when started
    writes,           \* per node: the delta it returned in this superstep
    analyst_signals,  \* state["data"]["analyst_signals"], merged channel
    messages,         \* state["messages"], append-only
    outcome,          \* what run_hedge_fund handed to its caller
    progress,         \* progress tracker: [started, stopped]
    fault,            \* the node that raised and the error it raised
    \* ---- one structured invocation (call_llm) --------------------------
    inv,
    \* ---- one call of get_prompt_template --------------------------------
    pr,
    \* ---- one call of get_model / of a base-URL normalisation ------------
    mr,
    \* ---- the llm_models table and the requests working on it ------------
    cat,
    \* ---- generate_final_report: how often it ran, how call_llm ended ----
    synth,
    \* ---- one run of the prompt sync script ------------------------------
    sy

runVars    == <<pc, selected_analysts, tickers, workflow, active, task, runs,
                view, writes, analyst_signals, messages, outcome, progress, fault, synth>>
vars       == <<pc, selected_analysts, tickers, workflow, active, task, runs,
                view, writes, analyst_signals, messages, outcome, progress, fault,
                inv, pr, mr, cat, synth, sy>>

\* a selected_analysts argument: Python's None, or a list of keys
None == [given |-> FALSE, list |-> <<>>]

(***************************************************************************)
(* Bounds of the model                                                     *)
(***************************************************************************)
\* longest selected_analysts list the caller passes
MaxSel == 2

(***************************************************************************)
(* Analyst registry and node names                                         *)
(***************************************************************************)
\* get_analyst_nodes(): key -> (node_name, node_func); three registered keys
ANALYST_KEYS == {"ben_graham", "cathie_wood", "warren_buffett"}

\* a key the registry does not hold
UnknownKey == "not_an_analyst"

analyst_nodes ==
    [k \in ANALYST_KEYS |->
        CASE k = "ben_graham"     -> "ben_graham_agent"
          [] k = "cathie_wood"    -> "cathie_wood_agent"
          [] k = "warren_buffett" -> "warren_buffett_agent"]

AnalystNodeNames == {analyst_nodes[k] : k \in ANALYST_KEYS}

\* the agent key an analyst node writes its signals under
AgentKey(n) == CHOOSE k \in ANALYST_KEYS : analyst_nodes[k] = n

START == "__start__"
END   == "__end__"
StartNode     == "start_node"
RiskNode      == "risk_management_agent"
PortfolioNode == "portfolio_manager"

AllNodes == {StartNode, RiskNode, PortfolioNode} \cup AnalystNodeNames

TickerUniverse == {"AAPL", "MSFT"}

\* what a caller may pass as selected_analysts
Selections ==
    {None} \cup
    {[given |-> TRUE, list |-> l] :
        l \in UNION {[1..n -> ANALYST_KEYS \cup {UnknownKey}] : n \in 0..MaxSel}}

Range(s) == {s[i] : i \in DOMAIN s}

(***************************************************************************)
(* create_workflow                                                         *)
(***************************************************************************)
\* index of the first list element on which the first loop raises, 0 if none:
\* analyst_nodes[analyst_key] raises KeyError for an unknown key, add_node
\* raises ValueError for a node name that is already present
FirstBad(list) ==
    LET bad == {i \in DOMAIN list :
                   \/ list[i] \notin ANALYST_KEYS
                   \/ \E j \in 1..(i-1) : list[j] = list[i]}
    IN IF bad = {} THEN 0 ELSE CHOOSE i \in bad : \A j \in bad : i <= j

\* a variant whose loops skip the first list element (an off-by-one slice)
SelectedKeysSkipFirst(sel) ==
    IF sel = None THEN ANALYST_KEYS
    ELSE {sel.list[i] : i \in DOMAIN sel.list \ {1}}

\* the keys both loops iterate over: list(analyst_nodes.keys()) for None
SelectedKeys(sel) == IF sel = None THEN ANALYST_KEYS ELSE Range(sel.list)

\* start_node -> analyst edges, added in the first loop
StartEdges(keys) == {<<StartNode, analyst_nodes[k]>> : k \in keys}

\* analyst -> risk_management_agent edges, added in the second loop
RiskEdges(keys) == {<<analyst_nodes[k], RiskNode>> : k \in keys}

\* a variant that also wires start_node straight to risk_management_agent
WorkflowEdgesShortcut(keys) ==
    {<<START, StartNode>>, <<StartNode, RiskNode>>}
        \cup StartEdges(keys) \cup RiskEdges(keys)
        \cup {<<RiskNode, PortfolioNode>>, <<PortfolioNode, END>>}

WorkflowEdges(keys) ==
    {<<START, StartNode>>}
        \cup StartEdges(keys) \cup RiskEdges(keys)
        \cup {<<RiskNode, PortfolioNode>>, <<PortfolioNode, END>>}

WorkflowNodes(keys) ==
    {StartNode, RiskNode, PortfolioNode} \cup {analyst_nodes[k] : k \in keys}

NoWorkflow == [ok |-> FALSE, error |-> "none", nodes |-> {}, edges |-> {}]

create_workflow(sel) ==
    IF FirstBad(sel.list) # 0
    THEN [ok |-> FALSE,
          error |-> IF sel.list[FirstBad(sel.list)] \notin ANALYST_KEYS
                    THEN "KeyError" ELSE "ValueError",
          nodes |-> {}, edges |-> {}]
    ELSE [ok |-> TRUE, error |-> "none",
          nodes |-> WorkflowNodes(SelectedKeys(sel)),
          edges |-> WorkflowEdges(SelectedKeys(sel))]

\* a variant that passes an empty list through instead of defaulting
WorkflowArgKeepEmpty(sel) == sel

\* run_hedge_fund: create_workflow(selected_analysts if selected_analysts else None)
WorkflowArg(sel) == IF sel = None \/ sel.list = <<>> THEN None ELSE sel

(***************************************************************************)
(* JSON values and message contents                                        *)
(***************************************************************************)
JNull     == [tag |-> "null"]
JStr(x)   == [tag |-> "str", s |-> x]
JObj(f)   == [tag |-> "obj", fields |-> f]
JNum(n)   == [tag |-> "num", n |-> n]
JList(l)  == [tag |-> "list", l |-> l]
EmptyMap  == [k \in {} |-> JNull]

\* Python truthiness of a parsed JSON value
Truthy(v) ==
    CASE v.tag = "null" -> FALSE
      [] v.tag = "str"  -> v.s # ""
      [] v.tag = "obj"  -> DOMAIN v.fields # {}
      [] v.tag = "num"  -> v.n # 0
      [] v.tag = "list" -> v.l # <<>>
      [] OTHER          -> TRUE

\* a message content: a string holding JSON, a string that is not JSON, a
\* content that is not a string (a list of content parts)
TextContent(x) == [kind |-> "text", json |-> JNull, text |-> x]
JsonContent(v) == [kind |-> "json", json |-> v, text |-> ""]
PartsContent   == [kind |-> "parts", json |-> JNull, text |-> ""]

\* the 'decisions' object the portfolio stage emits for the run's tickers
Decisions(T, action) == JObj([t \in T |-> JStr(action)])

\* JSON payloads that are not the {decisions, report} object of the
\* portfolio stage: not an object, no 'decisions', a null or non-mapping
\* 'decisions', a blank report, a report that is not a string
MalformedPayloads(T) ==
    {JList(<<JStr("buy")>>),
     Decisions(T, "buy"),
     JObj([k \in {"decisions"} |-> JNull]),
     JObj([k \in {"decisions"} |-> JList(<<JStr("buy")>>)]),
     JObj([k \in {"decisions", "report"} |->
          IF k = "decisions" THEN Decisions(T, "hold") ELSE JStr(" ")]),
     JObj([k \in {"decisions", "report"} |->
          IF k = "decisions" THEN JNull ELSE JNum(5)])}

\* contents the portfolio node may leave in its final message
PortfolioContents(T) ==
    {JsonContent(JObj([k \in {"decisions", "report"} |->
          IF k = "decisions" THEN Decisions(T, a) ELSE JStr("portfolio report")]))
        : a \in {"buy", "hold"}}
    \cup {JsonContent(JObj([k \in {"decisions"} |-> Decisions(T, a)]))
        : a \in {"buy", "hold"}}
    \cup {TextContent("not json"), PartsContent}
    \cup {JsonContent(v) : v \in MalformedPayloads(T)}

\* json.loads with every exception turned into None
parse_hedge_fund_response(content) ==
    IF content.kind = "json" THEN content.json ELSE JNull

\* a variant that hands back the whole payload as the decisions
parse_portfolio_manager_contentWhole(content) ==
    LET parsed == parse_hedge_fund_response(content) IN
    IF ~Truthy(parsed) \/ parsed.tag # "obj"
    THEN [decisions |-> JObj(EmptyMap), report |-> JStr("")]
    ELSE [decisions |-> parsed, report |-> JStr("")]

\* (decisions, report) of the portfolio node's content
parse_portfolio_manager_content(content) ==
    LET parsed == parse_hedge_fund_response(content) IN
    IF ~Truthy(parsed) \/ parsed.tag # "obj"
    THEN [decisions |-> JObj(EmptyMap), report |-> JStr("")]
    ELSE IF "decisions" \in DOMAIN parsed.fields
    THEN [decisions |-> parsed.fields["decisions"],
          report    |-> IF "report" \in DOMAIN parsed.fields
                           /\ Truthy(parsed.fields["report"])
                        THEN parsed.fields["report"] ELSE JStr("")]
    ELSE [decisions |-> parsed, report |-> JStr("")]

(***************************************************************************)
(* Signals and the merge of node deltas                                    *)
(***************************************************************************)
SignalValues == {"bullish", "bearish"}

\* one SignalRecord; by and ticker record who produced it and for what
SignalRecord(sig, key, t) ==
    [signal |-> sig, confidence |-> 50, by |-> key, ticker |-> t]

NoMsg == [by |-> "nobody", content |-> TextContent("")]
NoDelta == [signals |-> EmptyMap, msg |-> NoMsg]

\* the delta an analyst node returns: its own namespace, one record per ticker
AnalystDelta(n, sig, T) ==
    [signals |-> [k \in {AgentKey(n)} |->
                     [t \in T |-> SignalRecord(sig, AgentKey(n), t)]],
     msg     |-> [by |-> n, content |-> TextContent("signal")]]

\* a merge in which the last delta replaces the whole mapping
MergeSignalsOverwrite(base, deltas) ==
    IF deltas = {} THEN base
    ELSE (CHOOSE d \in deltas : TRUE)

\* the executor's merge of a superstep's deltas into analyst_signals:
\* key-wise, a delta's namespace replacing the same namespace of the base
MergeSignals(base, deltas) ==
    [k \in DOMAIN base \cup UNION {DOMAIN d : d \in deltas} |->
        IF \E d \in deltas : k \in DOMAIN d
        THEN (CHOOSE d \in deltas : k \in DOMAIN d)[k]
        ELSE base[k]]

\* fixed order in which a superstep's messages are appended
NodeOrder ==
    <<StartNode, "ben_graham_agent", "cathie_wood_agent", "warren_buffett_agent",
      RiskNode, PortfolioNode>>

AppendMessages(msgs, done, w) ==
    LET order == SelectSeq(NodeOrder, LAMBDA n : n \in done /\ w[n].msg # NoMsg)
    IN msgs \o [i \in 1..Len(order) |-> w[order[i]].msg]

\* nodes triggered by the nodes that completed the superstep
Successors(edges, done) ==
    {e[2] : e \in {x \in edges : x[1] \in done}} \ {END}

(***************************************************************************)
(* run_hedge_fund                                                          *)
(***************************************************************************)
NoOutcome ==
    [kind |-> "none", error |-> "none", decisions |-> JNull,
     analyst_signals |-> EmptyMap, report |-> JNull]

Raised(e) ==
    [kind |-> "raised", error |-> e, decisions |-> JNull,
     analyst_signals |-> EmptyMap, report |-> JNull]

\* a variant with an except clause that swallows the error
OnNodeErrorSwallow(e) ==
    [kind |-> "returned", error |-> "none", decisions |-> JObj(EmptyMap),
     analyst_signals |-> EmptyMap, report |-> JStr("")]

\* try/finally without except: a node's error leaves run_hedge_fund as raised
OnNodeError(e) == Raised(e)

NoFault == [node |-> "none", error |-> "none"]

\* the other machines at rest
InvIdle == [pc |-> "idle"]
PrIdle  == [pc |-> "idle"]
MrIdle  == [pc |-> "idle"]
CatIdle == [pc |-> "idle"]

\* generate_final_report has not been called
NoSynth == [calls |-> 0, how |-> "none"]

\* the sync script has not been started
SyIdle == [pc |-> "idle"]

\* unrecoverable errors a node may raise
NodeErrors == {"ConfigurationError", "UnknownNameError"}

\* nothing has been called yet
Init ==
    /\ pc = "init"
    /\ selected_analysts = None
    /\ tickers = {}
    /\ workflow = NoWorkflow
    /\ active = {}
    /\ task = [n \in AllNodes |-> "none"]
    /\ runs = [n \in AllNodes |-> [started |-> 0, finished |-> 0]]
    /\ view = [n \in AllNodes |-> EmptyMap]
    /\ writes = [n \in AllNodes |-> NoDelta]
    /\ analyst_signals = EmptyMap
    /\ messages = <<>>
    /\ outcome = NoOutcome
    /\ progress = [started |-> 0, stopped |-> 0]
    /\ fault = NoFault
    /\ inv = InvIdle
    /\ pr = PrIdle
    /\ mr = MrIdle
    /\ cat = CatIdle
    /\ synth = NoSynth
    /\ sy = SyIdle

\* a finally clause that forgets the indicator
StoppedNever(p) == p

\* finally: progress.stop()
Stopped(p) == [p EXCEPT !.stopped = @ + 1]

\* run_hedge_fund up to agent.invoke: progress.start(), create_workflow,
\* compile, the initial state; a failing create_workflow leaves through finally
Call(sel, T) ==
    /\ pc = "init"
    /\ selected_analysts' = sel
    /\ tickers' = T
    /\ LET wf == create_workflow(WorkflowArg(sel)) IN
       IF ~wf.ok
       THEN /\ pc' = "raised"
            /\ outcome' = Raised(wf.error)
            /\ progress' = Stopped([started |-> 1, stopped |-> 0])
            /\ UNCHANGED <<workflow, active, task, messages>>
       ELSE /\ pc' = "running"
            /\ workflow' = wf
            /\ active' = Successors(wf.edges, {START})
            /\ task' = [n \in AllNodes |->
                          IF n \in Successors(wf.edges, {START})
                          THEN "pending" ELSE "none"]
            /\ messages' = <<[by |-> "caller", content |-> TextContent("initial")]>>
            /\ progress' = [started |-> 1, stopped |-> 0]
            /\ UNCHANGED outcome
    /\ UNCHANGED <<runs, view, writes, analyst_signals, fault, inv, pr, mr, cat, synth, sy>>

\* the executor starts a scheduled node: it receives a view of the state
NodeStart(n) ==
    /\ pc = "running"
    /\ n \in active
    /\ task[n] = "pending"
    /\ task' = [task EXCEPT ![n] = "running"]
    /\ runs' = [runs EXCEPT ![n].started = @ + 1]
    /\ view' = [view EXCEPT ![n] = analyst_signals]
    /\ UNCHANGED <<pc, selected_analysts, tickers, workflow, active, writes,
                   analyst_signals, messages, outcome, progress, fault, inv, pr, mr, cat, synth, sy>>

\* what a node returns
NodeDeltas(n) ==
    IF n \in AnalystNodeNames
    THEN {AnalystDelta(n, sig, tickers) : sig \in SignalValues}
    ELSE IF n = PortfolioNode
    THEN {[signals |-> EmptyMap, msg |-> [by |-> n, content |-> c]]
             : c \in PortfolioContents(tickers)}
    ELSE {NoDelta}

\* a running node completes and hands its delta to the executor
NodeFinish(n) ==
    /\ pc = "running"
    /\ task[n] = "running"
    /\ \E d \in NodeDeltas(n) : writes' = [writes EXCEPT ![n] = d]
    /\ task' = [task EXCEPT ![n] = "done"]
    /\ runs' = [runs EXCEPT ![n].finished = @ + 1]
    /\ UNCHANGED <<pc, selected_analysts, tickers, workflow, active, view,
                   analyst_signals, messages, outcome, progress, fault, inv, pr, mr, cat, synth, sy>>

\* a running node raises an unrecoverable error: the executor does not retry,
\* the superstep's deltas are dropped, run_hedge_fund leaves through finally
NodeRaise(n, e) ==
    /\ pc = "running"
    /\ task[n] = "running"
    /\ n # StartNode
    /\ fault' = [node |-> n, error |-> e]
    /\ outcome' = OnNodeError(e)
    /\ pc' = IF OnNodeError(e).kind = "raised" THEN "raised" ELSE "returned"
    /\ progress' = Stopped(progress)
    /\ UNCHANGED <<selected_analysts, tickers, workflow, active, task, runs, view,
                   writes, analyst_signals, messages, inv, pr, mr, cat, synth, sy>>

\* the barrier at the end of a superstep: every scheduled node is done, the
\* deltas are merged, and the nodes triggered by the finished ones are scheduled
StepEnd ==
    /\ pc = "running"
    /\ active # {}
    /\ \A n \in active : task[n] = "done"
    /\ analyst_signals' =
           MergeSignals(analyst_signals, {writes[n].signals : n \in active})
    /\ messages' = AppendMessages(messages, active, writes)
    /\ LET next == Successors(workflow.edges, active) IN
       /\ active' = next
       /\ task' = [n \in AllNodes |-> IF n \in next THEN "pending" ELSE "none"]
       /\ pc' = IF next = {} THEN "invoked" ELSE "running"
    /\ writes' = [n \in AllNodes |-> NoDelta]
    /\ UNCHANGED <<selected_analysts, tickers, workflow, runs, view, outcome,
                   progress, fault, inv, pr, mr, cat, synth, sy>>

\* what generate_final_report may hand back: the report call_llm parsed from
\* the model's answer (any string, the empty one included), the fixed
\* placeholder of its default_factory when the invocation failed, or an error
\* of the model resolver
ReportPlaceholder == JStr("report generation failed")
ReportOutcomes ==
    {[how |-> "parsed",  report |-> JStr("synthesized report")],
     [how |-> "parsed",  report |-> JStr("")],
     [how |-> "default", report |-> ReportPlaceholder],
     [how |-> "error",   report |-> JNull]}

\* a variant that synthesizes a report whatever the payload carries
ReportMissingAlways(report) == TRUE

\* not (report and report.strip()): the report is missing or blank
ReportMissing(report) ==
    ~Truthy(report) \/ (report.tag = "str" /\ report.s = " ")

\* report.strip() on a truthy value that is not a string: AttributeError
StripRaises(report) == Truthy(report) /\ report.tag # "str"

\* the mapping run_hedge_fund returns
Result(decisions, signals, report) ==
    [kind |-> "returned", error |-> "none", decisions |-> decisions,
     analyst_signals |-> signals, report |-> report]

\* run_hedge_fund after agent.invoke returned: parse the last message, synthesize
\* a report when there is none, return the result mapping, progress.stop()
Finish ==
    /\ pc = "invoked"
    /\ LET parsed    == parse_portfolio_manager_content(messages[Len(messages)].content)
           decisions == IF Truthy(parsed.decisions) THEN parsed.decisions
                        ELSE JObj(EmptyMap)
       IN IF StripRaises(parsed.report)
          THEN /\ pc' = "raised"
               /\ outcome' = Raised("AttributeError")
               /\ UNCHANGED synth
          ELSE IF ReportMissing(parsed.report)
          THEN \E r \in ReportOutcomes :
                  /\ synth' = [calls |-> synth.calls + 1, how |-> r.how]
                  /\ IF r.how # "error"
                     THEN /\ pc' = "returned"
                          /\ outcome' = Result(decisions, analyst_signals, r.report)
                     ELSE /\ pc' = "raised"
                          /\ outcome' = Raised("ConfigurationError")
          ELSE /\ pc' = "returned"
               /\ outcome' = Result(decisions, analyst_signals, parsed.report)
               /\ UNCHANGED synth
    /\ progress' = Stopped(progress)
    /\ UNCHANGED <<selected_analysts, tickers, workflow, active, task, runs, view,
                   writes, analyst_signals, messages, fault, inv, pr, mr, cat, sy>>

NextRun ==
    \/ \E sel \in Selections, T \in SUBSET TickerUniverse : Call(sel, T)
    \/ \E n \in AllNodes : NodeStart(n)
    \/ \E n \in AllNodes : NodeFinish(n)
    \/ \E n \in AllNodes, e \in NodeErrors : NodeRaise(n, e)
    \/ StepEnd
    \/ Finish

SpecRun == Init /\ [][NextRun]_vars

(***************************************************************************)
(* Properties of a run of the graph                                        *)
(***************************************************************************)
\* the analyst keys the caller asked for: every registered key when the
\* selection is None or empty
ExpectedKeys ==
    IF selected_analysts = None \/ selected_analysts.list = <<>>
    THEN ANALYST_KEYS
    ELSE Range(selected_analysts.list) \cap ANALYST_KEYS

ExpectedAnalysts == {analyst_nodes[k] : k \in ExpectedKeys}

Completed(n) == runs[n].finished >= 1 /\ task[n] \notin {"pending", "running"}

\* C1: risk_management_agent starts only after every selected analyst node has
\* completed (none still running or not yet started), and portfolio_manager
\* starts only after risk_management_agent has completed.
C1_Barrier ==
    /\ runs[RiskNode].started > 0 => \A a \in ExpectedAnalysts : Completed(a)
    /\ runs[PortfolioNode].started > 0 => Completed(RiskNode)

C1_Witness ==
    /\ task[RiskNode] = "running"
    /\ selected_analysts.given
    /\ Cardinality(ExpectedAnalysts) = 2

\* C2: every node is started at most once and no node outside the selection,
\* start, risk and portfolio is ever started; a run that came back from the
\* graph started and finished each selected analyst, the risk node and the
\* portfolio node exactly once; once portfolio_manager has finished nothing
\* else is scheduled or running.
C2_ExactlyOnce ==
    /\ \A n \in AllNodes : runs[n].started <= 1
    /\ \A n \in AllNodes \ (ExpectedAnalysts \cup {StartNode, RiskNode, PortfolioNode}) :
          runs[n].started = 0
    /\ pc \in {"invoked", "returned"} =>
          \A n \in ExpectedAnalysts \cup {StartNode, RiskNode, PortfolioNode} :
              runs[n].started = 1 /\ runs[n].finished = 1
    /\ runs[PortfolioNode].finished > 0 =>
          /\ \A n \in AllNodes \ {PortfolioNode} : task[n] = "none"
          /\ active \subseteq {PortfolioNode}

C2_Witness ==
    /\ pc = "returned"
    /\ selected_analysts.given
    /\ Cardinality(ExpectedAnalysts) = 2
    /\ tickers = TickerUniverse

\* C3: the returned analyst_signals holds exactly one record for each
\* (selected agent, ticker) pair, and each record was produced by the agent
\* whose key it is stored under, for the ticker it is stored under.
C3_SignalsComplete ==
    pc = "returned" =>
        /\ DOMAIN outcome.analyst_signals = ExpectedKeys
        /\ \A k \in DOMAIN outcome.analyst_signals :
              /\ DOMAIN outcome.analyst_signals[k] = tickers
              /\ \A t \in tickers :
                    /\ outcome.analyst_signals[k][t].by = k
                    /\ outcome.analyst_signals[k][t].ticker = t

C3_Witness ==
    /\ pc = "returned"
    /\ selected_analysts.given
    /\ Cardinality(ExpectedKeys) = 2
    /\ tickers = TickerUniverse
    /\ \E k1, k2 \in DOMAIN outcome.analyst_signals :
          outcome.analyst_signals[k1]["AAPL"].signal
              # outcome.analyst_signals[k2]["AAPL"].signal

\* the mapping holds every selected analyst's own entries, for every ticker
CompleteSignals(m) ==
    /\ DOMAIN m = ExpectedKeys
    /\ \A k \in ExpectedKeys :
          /\ DOMAIN m[k] = tickers
          /\ \A t \in tickers : m[k][t].by = k

\* C4: whatever the interleaving of the analyst nodes, the analyst_signals
\* handed to risk_management_agent when it starts, and to portfolio_manager
\* when it starts, holds the entries of every selected analyst.
C4_NoLostWrite ==
    /\ runs[RiskNode].started > 0 => CompleteSignals(view[RiskNode])
    /\ runs[PortfolioNode].started > 0 => CompleteSignals(view[PortfolioNode])

C4_Witness ==
    /\ task[PortfolioNode] = "running"
    /\ Cardinality(ExpectedKeys) = 3
    /\ tickers # {}
    /\ \E k1, k2 \in DOMAIN view[PortfolioNode] : \E t \in tickers :
          view[PortfolioNode][k1][t].signal # view[PortfolioNode][k2][t].signal

AnalystsInPlan == workflow.nodes \cap AnalystNodeNames

\* C5 (as stated): an explicitly empty selection is rejected, never compiled.
C5_EmptyRejected ==
    (pc # "init" /\ selected_analysts.given /\ selected_analysts.list = <<>>)
        => ~workflow.ok

\* C5 (amended): run_hedge_fund never compiles a plan with zero analyst nodes;
\* a None selection and an empty list both default to all registered analysts.
C5_NonEmptyPlan ==
    workflow.ok =>
        /\ AnalystsInPlan # {}
        /\ (selected_analysts = None \/ selected_analysts.list = <<>>)
              => AnalystsInPlan = AnalystNodeNames

C5_Witness ==
    /\ workflow.ok
    /\ selected_analysts.given
    /\ selected_analysts.list = <<>>
    /\ AnalystsInPlan = AnalystNodeNames

\* C6: when a node raises an unrecoverable error, run_hedge_fund raises that
\* same error, returns no result mapping, and the failing node was started
\* exactly once.
C6_ErrorPropagates ==
    fault # NoFault =>
        /\ pc = "raised"
        /\ outcome = Raised(fault.error)
        /\ runs[fault.node].started = 1
        /\ runs[fault.node].finished = 0

C6_Witness ==
    /\ fault = [node |-> "warren_buffett_agent", error |-> "ConfigurationError"]
    /\ pc = "raised"


(***************************************************************************)
(* Structured invocation: call_llm                                         *)
(***************************************************************************)
\* largest max_retries a caller passes
MaxRetriesBound == 4

\* values the chat client's output may parse into
ParsedValues == {"v1", "v2"}

\* what one underlying chat call may yield
CallOutcomes ==
    {[kind |-> "ok", value |-> v] : v \in ParsedValues}
        \cup {[kind |-> "parse_fail", value |-> "none"],
              [kind |-> "transport_fail", value |-> "none"]}

NoResult      == [kind |-> "none", value |-> "none"]
Parsed(v)     == [kind |-> "parsed", value |-> v]
\* default_factory()
DefaultResult == [kind |-> "default", value |-> "default"]

\* a variant that allows one attempt too many
RetriesRemainOffByOne(made, max_retries) == made <= max_retries + 1

\* after `made` attempts another one is allowed: max_retries + 1 attempts in all
RetriesRemain(made, max_retries) == made <= max_retries

\* a variant that keeps calling after a successful parse while retries remain
AfterCallKeepGoing(made, o, max_retries) ==
    IF RetriesRemain(made, max_retries)
    THEN [pc |-> "calling", result |-> NoResult]
    ELSE IF o.kind = "ok"
    THEN [pc |-> "done", result |-> Parsed(o.value)]
    ELSE [pc |-> "done", result |-> DefaultResult]

\* what the retry loop does with the outcome of attempt number `made`
AfterCall(made, o, max_retries) ==
    IF o.kind = "ok"
    THEN [pc |-> "done", result |-> Parsed(o.value)]
    ELSE IF RetriesRemain(made, max_retries)
    THEN [pc |-> "calling", result |-> NoResult]
    ELSE [pc |-> "done", result |-> DefaultResult]

\* call_llm is entered with a retry bound
InvokeStart(max_retries) ==
    /\ inv = InvIdle
    /\ inv' = [pc |-> "calling", max_retries |-> max_retries, calls |-> <<>>,
               result |-> NoResult, raised |-> FALSE]
    /\ UNCHANGED <<runVars, pr, mr, cat, sy>>

\* one attempt: the chat call, the parse, and the loop's decision
ChatCall(o) ==
    /\ inv.pc = "calling"
    /\ LET made == Len(inv.calls) + 1
           next == AfterCall(made, o, inv.max_retries)
       IN inv' = [inv EXCEPT !.calls = Append(@, o),
                             !.pc = next.pc,
                             !.result = next.result]
    /\ UNCHANGED <<runVars, pr, mr, cat, sy>>

NextInvoker ==
    \/ \E m \in 0..MaxRetriesBound : InvokeStart(m)
    \/ \E o \in CallOutcomes : ChatCall(o)

SpecInvoker == Init /\ [][NextInvoker]_vars

\* C7: when attempt 1 fails to parse and attempt 2 parses (at least one retry
\* allowed), the invocation is over with the value parsed on attempt 2 after
\* exactly 2 chat calls.
C7_SecondAttemptWins ==
    (/\ inv.pc # "idle"
     /\ inv.max_retries >= 1
     /\ Len(inv.calls) >= 2
     /\ inv.calls[1].kind = "parse_fail"
     /\ inv.calls[2].kind = "ok")
    => /\ inv.pc = "done"
       /\ inv.result = Parsed(inv.calls[2].value)
       /\ Len(inv.calls) = 2
       /\ ~inv.raised

C7_Witness ==
    /\ inv.pc = "done"
    /\ inv.max_retries = 2
    /\ inv.calls = <<[kind |-> "parse_fail", value |-> "none"],
                     [kind |-> "ok", value |-> "v2"]>>

\* C8: the number of chat calls never exceeds max_retries + 1 and the loop is
\* never stuck before it is done; with a client that never yields parsable
\* output the invocation ends after exactly max_retries + 1 calls (one call
\* when max_retries = 0) with default_factory()'s value and no exception.
C8_BoundedFallback ==
    inv.pc # "idle" =>
        /\ Len(inv.calls) <= inv.max_retries + 1
        /\ inv.pc = "calling" => ENABLED NextInvoker
        /\ (inv.pc = "done" /\ \A i \in DOMAIN inv.calls : inv.calls[i].kind # "ok")
              => /\ inv.result = DefaultResult
                 /\ Len(inv.calls) = inv.max_retries + 1
                 /\ ~inv.raised

C8_Witness ==
    /\ inv.pc = "done"
    /\ inv.max_retries = 0
    /\ inv.calls = <<[kind |-> "transport_fail", value |-> "none"]>>
    /\ inv.result = DefaultResult

(***************************************************************************)
(* Prompt resolution: get_prompt_template                                  *)
(***************************************************************************)
\* registered prompt names (three of the registry's entries)
PROMPT_NAMES ==
    {"hedge-fund/warren_buffett", "hedge-fund/portfolio_manager",
     "hedge-fund/final_report"}

UnknownPrompt == "hedge-fund/unknown"

\* DEFAULT_PROMPTS: name -> list of {role, content}
DEFAULT_PROMPTS ==
    [n \in PROMPT_NAMES |->
        <<[role |-> "system",
           content |-> CASE n = "hedge-fund/warren_buffett"    -> "You are Warren Buffett"
                         [] n = "hedge-fund/portfolio_manager" -> "You are a portfolio manager"
                         [] n = "hedge-fund/final_report"      -> "You write the report"],
          [role |-> "human",
           content |-> CASE n = "hedge-fund/warren_buffett"    -> "{ticker} {facts}"
                         [] n = "hedge-fund/portfolio_manager" -> "{signals} {allowed}"
                         [] n = "hedge-fund/final_report"      -> "{context}"]>>]

Labels == {"production", "latest"}

\* a variant that is satisfied with either key
is_langfuse_configuredEither(public_key, secret_key) == public_key \/ secret_key

\* is_langfuse_configured(): both keys set and non-empty
is_langfuse_configured(public_key, secret_key) == public_key /\ secret_key

\* what pf.get_langchain_prompt() may hand back: a list of messages (chat), a
\* string (text prompt) or something else; valid tells whether LangChain can
\* build a template from it
RemoteShapes ==
    {[shape |-> sh, valid |-> v] : sh \in {"list", "str"}, v \in BOOLEAN}
        \cup {[shape |-> "other", valid |-> FALSE]}

NoShape == [shape |-> "none", valid |-> FALSE]

\* ChatPromptTemplate.from_messages: one message template per (role, content)
FromMessages(msgs) ==
    [i \in DOMAIN msgs |-> [type |-> msgs[i].role, template |-> msgs[i].content]]

\* the remote chat prompt's messages for a name and label
RemoteMessages(name, label) ==
    <<[role |-> "system", content |-> "remote system"],
      [role |-> "human", content |-> label]>>

Template(src, t) == [kind |-> "template", source |-> src, template |-> t, error |-> "none"]
PromptRaised(e)  == [kind |-> "raised", source |-> "none", template |-> <<>>, error |-> e]
NoTemplate       == [kind |-> "none", source |-> "none", template |-> <<>>, error |-> "none"]
BuildError       == [kind |-> "error", source |-> "none", template |-> <<>>, error |-> "Exception"]

\* a variant that treats every non-list prompt as an error
BuildRemoteChatOnly(lc, name, label) ==
    IF lc.shape = "list" /\ lc.valid
    THEN Template("remote", FromMessages(RemoteMessages(name, label)))
    ELSE BuildError

\* isinstance(lc_prompt, list) -> from_messages, otherwise from_template: a
\* template, or the exception the constructor raises
BuildRemote(lc, name, label) ==
    IF lc.shape = "list"
    THEN IF lc.valid
         THEN Template("remote", FromMessages(RemoteMessages(name, label)))
         ELSE BuildError
    ELSE IF lc.shape = "str" /\ lc.valid
         THEN Template("remote", <<[type |-> "human", template |-> "remote text"]>>)
         ELSE BuildError

\* a variant that answers an unknown name with an empty template
LocalDefaultLenient(name) ==
    IF name \in DOMAIN DEFAULT_PROMPTS
    THEN Template("local", FromMessages(DEFAULT_PROMPTS[name]))
    ELSE Template("local", <<>>)

\* get_default_messages + from_messages: KeyError for an unknown name
LocalDefault(name) ==
    IF name \in DOMAIN DEFAULT_PROMPTS
    THEN Template("local", FromMessages(DEFAULT_PROMPTS[name]))
    ELSE PromptRaised("KeyError")

\* a variant whose try block ends before the template is built
OnRemoteErrorNarrow(stage) ==
    IF stage \in {"translate", "build"} THEN "raise" ELSE "local"

\* except Exception: log and fall through to the local registry
OnRemoteError(stage) == "local"

\* pr after the remote attempt failed at `stage`
RemoteFailed(stage) ==
    IF OnRemoteError(stage) = "local"
    THEN [pr EXCEPT !.pc = "local", !.failed_at = stage]
    ELSE [pr EXCEPT !.pc = "done", !.failed_at = stage,
                    !.result = PromptRaised("Exception")]

\* get_prompt_template is entered: the configuration test
PromptCall(name, label, public_key, secret_key) ==
    /\ pr = PrIdle
    /\ pr' = [pc |-> IF is_langfuse_configured(public_key, secret_key)
                     THEN "client" ELSE "local",
              name |-> name, label |-> label,
              configured |-> is_langfuse_configured(public_key, secret_key),
              public_key |-> public_key, secret_key |-> secret_key,
              remote_calls |-> 0, lc |-> NoShape, failed_at |-> "none",
              result |-> NoTemplate]
    /\ UNCHANGED <<runVars, inv, mr, cat, sy>>

\* from langfuse import get_client; client = get_client()
GetClient(ok) ==
    /\ pr.pc = "client"
    /\ pr' = IF ok THEN [pr EXCEPT !.pc = "fetch"] ELSE RemoteFailed("client")
    /\ UNCHANGED <<runVars, inv, mr, cat, sy>>

\* pf = client.get_prompt(name, label=label): the network call
GetPrompt(ok) ==
    /\ pr.pc = "fetch"
    /\ pr' = IF ok
             THEN [pr EXCEPT !.pc = "translate", !.remote_calls = @ + 1]
             ELSE [RemoteFailed("fetch") EXCEPT !.remote_calls = @ + 1]
    /\ UNCHANGED <<runVars, inv, mr, cat, sy>>

\* lc_prompt = pf.get_langchain_prompt()
Translate(ok, lc) ==
    /\ pr.pc = "translate"
    /\ pr' = IF ok
             THEN [pr EXCEPT !.pc = "build", !.lc = lc]
             ELSE RemoteFailed("translate")
    /\ UNCHANGED <<runVars, inv, mr, cat, sy>>

\* the template is built from the remote prompt and returned, or the
\* constructor raises inside the try block
Build ==
    /\ pr.pc = "build"
    /\ LET t == BuildRemote(pr.lc, pr.name, pr.label) IN
       pr' = IF t.kind = "template"
             THEN [pr EXCEPT !.pc = "done", !.result = t]
             ELSE RemoteFailed("build")
    /\ UNCHANGED <<runVars, inv, mr, cat, sy>>

\* the local registry default
Local ==
    /\ pr.pc = "local"
    /\ pr' = [pr EXCEPT !.pc = "done", !.result = LocalDefault(pr.name)]
    /\ UNCHANGED <<runVars, inv, mr, cat, sy>>

NextPrompt ==
    \/ \E name \in PROMPT_NAMES \cup {UnknownPrompt}, label \in Labels,
          public_key \in BOOLEAN, secret_key \in BOOLEAN :
              PromptCall(name, label, public_key, secret_key)
    \/ \E ok \in BOOLEAN : GetClient(ok)
    \/ \E ok \in BOOLEAN : GetPrompt(ok)
    \/ \E ok \in BOOLEAN, lc \in RemoteShapes : Translate(ok, lc)
    \/ Build
    \/ Local

SpecPrompt == Init /\ [][NextPrompt]_vars

\* C9: for a registered name, whenever the remote store is configured and the
\* remote attempt failed (client creation, fetch, translation or template
\* construction), the call ends with the local default template and raises
\* nothing.
C9_SilentFallback ==
    (/\ pr.pc = "done"
     /\ pr.name \in PROMPT_NAMES
     /\ pr.configured
     /\ pr.failed_at # "none")
    => pr.result = Template("local", FromMessages(DEFAULT_PROMPTS[pr.name]))

C9_Witness ==
    /\ pr.pc = "done"
    /\ pr.name = "hedge-fund/final_report"
    /\ pr.configured
    /\ pr.failed_at = "translate"
    /\ pr.result.source = "local"

\* C10 (as stated): a non-chat remote result is never adopted; the call ends
\* with the local default for the name.
C10_NonChatNeverAdopted ==
    (/\ pr.pc = "done"
     /\ pr.name \in PROMPT_NAMES
     /\ pr.lc.shape \in {"str", "other"})
    => pr.result = Template("local", FromMessages(DEFAULT_PROMPTS[pr.name]))

\* C10 (amended): a remote prompt that is not a list is handed to
\* from_template; when that builds a template (a string it accepts) the call
\* returns that single-message remote template, and only when it raises does
\* the call end with the local default.
C10_NonChatViaFromTemplate ==
    (/\ pr.pc = "done"
     /\ pr.name \in PROMPT_NAMES
     /\ pr.lc.shape \in {"str", "other"})
    => IF pr.lc.shape = "str" /\ pr.lc.valid
       THEN /\ pr.result.source = "remote"
            /\ Len(pr.result.template) = 1
            /\ pr.failed_at = "none"
       ELSE /\ pr.result = Template("local", FromMessages(DEFAULT_PROMPTS[pr.name]))
            /\ pr.failed_at = "build"

C10_Witness ==
    /\ pr.pc = "done"
    /\ pr.name = "hedge-fund/warren_buffett"
    /\ pr.lc = [shape |-> "str", valid |-> TRUE]
    /\ pr.result.source = "remote"

\* C11: when either Langfuse key is missing, for every registered name the
\* call makes no remote call and returns one message template per registry
\* message, in the registry's order, with the same role and the same content.
C11_UnconfiguredIsLocal ==
    (/\ pr.pc = "done"
     /\ pr.name \in PROMPT_NAMES
     /\ ~(pr.public_key /\ pr.secret_key))
    => /\ pr.remote_calls = 0
       /\ pr.failed_at = "none"
       /\ pr.result.kind = "template"
       /\ Len(pr.result.template) = Len(DEFAULT_PROMPTS[pr.name])
       /\ \A i \in DOMAIN DEFAULT_PROMPTS[pr.name] :
             /\ pr.result.template[i].type = DEFAULT_PROMPTS[pr.name][i].role
             /\ pr.result.template[i].template = DEFAULT_PROMPTS[pr.name][i].content

C11_Witness ==
    /\ pr.pc = "done"
    /\ pr.name = "hedge-fund/portfolio_manager"
    /\ pr.public_key
    /\ ~pr.secret_key
    /\ pr.result.source = "local"

\* C12 (as stated): a name unknown to both sources fails before any network
\* call is made, in every configuration.
C12_FailsBeforeNetwork ==
    (/\ pr.pc = "done"
     /\ pr.name = UnknownPrompt
     /\ pr.result.kind = "raised")
    => pr.remote_calls = 0

\* C12 (amended): a name that is not registered locally and that the remote
\* store did not supply fails with KeyError; no network call precedes the
\* failure when the remote store is unconfigured, but when it is configured
\* and a client was created, the remote fetch is made first.
C12_UnknownNameFails ==
    (/\ pr.pc = "done"
     /\ pr.name = UnknownPrompt
     /\ pr.result.source # "remote")
    => /\ pr.result = PromptRaised("KeyError")
       /\ ~pr.configured => pr.remote_calls = 0
       /\ (pr.configured /\ pr.failed_at # "client") => pr.remote_calls = 1

C12_Witness ==
    /\ pr.pc = "done"
    /\ pr.name = UnknownPrompt
    /\ pr.configured
    /\ pr.failed_at = "fetch"
    /\ pr.remote_calls = 1
    /\ pr.result = PromptRaised("KeyError")

(***************************************************************************)
(* The model resolver: src/src/llm/models.py                               *)
(***************************************************************************)

\* longest path (in segments) of a base URL handed to the normalisation
MaxSegs == 4

\* ModelProvider: the provider labels
ModelProvider ==
    {"Alibaba", "Anthropic", "DeepSeek", "Google", "Groq", "Meta", "Mistral",
     "OpenAI", "OpenAI Compatible", "Ollama", "OpenRouter", "GigaChat",
     "Azure OpenAI", "xAI", "Dashscope", "IDEALAB"}

\* a label that is no member of the enumeration
UnknownProvider == "Unknown"

\* a setting's value: Python's None, the empty string, or the string found
\* in the environment / in api_keys under the given name
NoneVal == [src |-> "none", name |-> ""]
EmptyStr == [src |-> "empty", name |-> ""]
Val(src, name) == [src |-> src, name |-> name]

\* truth value of a str | None
NonEmpty(v) == v.src \notin {"none", "empty"}

\* Python's `a or b`
PyOr(a, b) == IF NonEmpty(a) THEN a ELSE b

\* how a variable of the environment / a key of api_keys may be found
SettingStates == {"unset", "empty", "set"}

\* os.getenv(name)
getenv(env, name) ==
    IF name \notin DOMAIN env \/ env[name] = "unset" THEN NoneVal
    ELSE IF env[name] = "empty" THEN EmptyStr
    ELSE Val("env", name)

\* os.getenv(name, default)
getenv_default(env, name, default) ==
    IF getenv(env, name) = NoneVal THEN default ELSE getenv(env, name)

\* (api_keys or {}).get(key)
dict_get(api_keys, key) ==
    IF key \notin DOMAIN api_keys \/ api_keys[key] = "unset" THEN NoneVal
    ELSE IF api_keys[key] = "empty" THEN EmptyStr
    ELSE Val("api_keys", key)

\* a variant that prefers the per-call override to the environment
_get_api_keyOverrideFirst(env, api_keys, env_var, provider_value) ==
    PyOr(PyOr(dict_get(api_keys, env_var), dict_get(api_keys, provider_value)),
         getenv(env, env_var))

\* a variant that does not look under the provider label
_get_api_keyNoLabel(env, api_keys, env_var, provider_value) ==
    PyOr(getenv(env, env_var), dict_get(api_keys, env_var))

\* _get_api_key: the environment first, then api_keys[env_var], then
\* api_keys[provider label]
_get_api_key(env, api_keys, env_var, provider_value) ==
    LET from_env  == getenv(env, env_var)
        from_dict == PyOr(dict_get(api_keys, env_var), dict_get(api_keys, provider_value))
    IN  PyOr(from_env, from_dict)

\* a base URL: a prefix without a trailing slash followed by "/"-separated
\* path segments; an empty last segment is a trailing slash
Url(base, segs) == [given |-> TRUE, base |-> base, segs |-> segs]

\* base_url=None
NoUrl == [given |-> FALSE, base |-> "", segs |-> <<>>]

\* the path segments the URLs are written with
Segments == {"", "v1", "chat", "completions", "api"}

\* paths of at most n segments
RECURSIVE Paths(_)
Paths(n) ==
    IF n = 0 THEN {<<>>}
    ELSE Paths(n - 1) \cup
         {Append(p, g) : p \in {q \in Paths(n - 1) : Len(q) = n - 1}, g \in Segments}

\* the base URLs a caller may configure
BaseUrls == {Url("https://host", p) : p \in Paths(MaxSegs)}

\* str.rstrip("/") on the path
RECURSIVE rstrip(_)
rstrip(segs) ==
    IF segs # <<>> /\ segs[Len(segs)] = ""
    THEN rstrip(SubSeq(segs, 1, Len(segs) - 1))
    ELSE segs

\* str.endswith("/" + the given segments joined by "/")
endswith(segs, suffix) ==
    /\ Len(segs) >= Len(suffix)
    /\ SubSeq(segs, Len(segs) - Len(suffix) + 1, Len(segs)) = suffix

\* a variant that appends the version segment without looking
_normalize_openai_base_urlAppend(base_url) ==
    Url(base_url.base, Append(rstrip(base_url.segs), "v1"))

\* _normalize_openai_base_url
_normalize_openai_base_url(base_url) ==
    LET stripped == rstrip(base_url.segs) IN
    IF endswith(stripped, <<"v1", "chat", "completions">>)
    THEN Url(base_url.base, SubSeq(stripped, 1, Len(stripped) - 2))
    ELSE IF ~endswith(stripped, <<"v1">>)
    THEN Url(base_url.base, Append(stripped, "v1"))
    ELSE Url(base_url.base, stripped)

\* the Dashscope branch's own normalisation: rstrip, then append /v1 if absent
dashscope_normalize(base_url) ==
    LET stripped == rstrip(base_url.segs) IN
    IF ~endswith(stripped, <<"v1">>)
    THEN Url(base_url.base, Append(stripped, "v1"))
    ELSE Url(base_url.base, stripped)

\* the URL texts configured in the environment and in api_keys
DefaultUrls ==
    [env      |-> Url("https://env.example", <<"v1", "chat", "completions">>),
     api_keys |-> Url("https://override.example", <<"api", "">>)]

\* the URL text behind a setting's value; the empty string is the empty URL
UrlOf(v, urls) ==
    IF v.src = "none" THEN NoUrl
    ELSE IF v.src = "empty" THEN Url("", <<>>)
    ELSE IF v.src = "env" THEN urls.env
    ELSE IF v.src = "api_keys" THEN urls.api_keys
    ELSE v.url

\* `not base_url or not base_url.strip()`
blank(v) == ~NonEmpty(v)

\* the default Dashscope endpoint
DashscopeDefault ==
    [src |-> "default", name |-> "DASHSCOPE_BASE_URL",
     url |-> Url("https://dashscope.aliyuncs.com", <<"compatible-mode", "v1">>)]

\* what get_model hands back: a chat client, a raised ValueError whose
\* message names settings, or None
Client(class, api_key, base_url, deployment) ==
    [kind |-> "client", class |-> class, api_key |-> api_key,
     base_url |-> base_url, deployment |-> deployment, names |-> {}]
ValueError(names) ==
    [kind |-> "raised", class |-> "ValueError", api_key |-> NoneVal,
     base_url |-> NoUrl, deployment |-> NoneVal, names |-> names]
ReturnsNone ==
    [kind |-> "none", class |-> "None", api_key |-> NoneVal,
     base_url |-> NoUrl, deployment |-> NoneVal, names |-> {}]

\* a variant that goes on with a placeholder key when none is configured
keyed_clientPlaceholder(class, env, api_keys, env_var, provider_value, base_url) ==
    LET api_key == _get_api_key(env, api_keys, env_var, provider_value) IN
    IF ~NonEmpty(api_key) THEN Client(class, Val("default", env_var), base_url, NoneVal)
    ELSE Client(class, api_key, base_url, NoneVal)

\* the branches that take one key and a fixed endpoint: Groq, Anthropic,
\* DeepSeek, Google, OpenRouter, xAI
keyed_client(class, env, api_keys, env_var, provider_value, base_url) ==
    LET api_key == _get_api_key(env, api_keys, env_var, provider_value) IN
    IF ~NonEmpty(api_key) THEN ValueError({env_var})
    ELSE Client(class, api_key, base_url, NoneVal)

\* the OpenAI branch: base_url is OPENAI_API_BASE as found
openai_client(env, api_keys, urls) ==
    keyed_client("ChatOpenAI", env, api_keys, "OPENAI_API_KEY", "OpenAI",
                 UrlOf(getenv(env, "OPENAI_API_BASE"), urls))

\* the OpenAI Compatible branch
openai_compatible_client(env, api_keys, urls) ==
    LET api_key  == _get_api_key(env, api_keys, "OPENAI_COMPATIBLE_API_KEY",
                                 "OpenAI Compatible")
        base_url == PyOr(dict_get(api_keys, "OPENAI_COMPATIBLE_BASE_URL"),
                         getenv(env, "OPENAI_COMPATIBLE_BASE_URL"))
    IN  IF ~NonEmpty(api_key) THEN ValueError({"OPENAI_COMPATIBLE_API_KEY"})
        ELSE IF blank(base_url) THEN ValueError({"OPENAI_COMPATIBLE_BASE_URL"})
        ELSE Client("ChatOpenAI", api_key,
                    _normalize_openai_base_url(UrlOf(base_url, urls)), NoneVal)

\* the IDEALAB branch: its own settings first, the OpenAI Compatible ones next
idealab_client(env, api_keys, urls) ==
    LET api_key  == PyOr(_get_api_key(env, api_keys, "IDEALAB_API_KEY", "IDEALAB"),
                         _get_api_key(env, api_keys, "OPENAI_COMPATIBLE_API_KEY",
                                      "IDEALAB"))
        base_url == PyOr(PyOr(PyOr(dict_get(api_keys, "IDEALAB_BASE_URL"),
                                   getenv(env, "IDEALAB_BASE_URL")),
                              dict_get(api_keys, "OPENAI_COMPATIBLE_BASE_URL")),
                         getenv(env, "OPENAI_COMPATIBLE_BASE_URL"))
    IN  IF ~NonEmpty(api_key)
        THEN ValueError({"IDEALAB_API_KEY", "OPENAI_COMPATIBLE_API_KEY"})
        ELSE IF blank(base_url)
        THEN ValueError({"IDEALAB_BASE_URL", "OPENAI_COMPATIBLE_BASE_URL"})
        ELSE Client("ChatOpenAI", api_key,
                    _normalize_openai_base_url(UrlOf(base_url, urls)), NoneVal)

\* the Dashscope branch
dashscope_client(env, api_keys, urls) ==
    LET api_key  == _get_api_key(env, api_keys, "DASHSCOPE_API_KEY", "Dashscope")
        base_url == PyOr(dict_get(api_keys, "DASHSCOPE_BASE_URL"),
                         getenv_default(env, "DASHSCOPE_BASE_URL", DashscopeDefault))
    IN  IF ~NonEmpty(api_key) THEN ValueError({"DASHSCOPE_API_KEY"})
        ELSE Client("ChatOpenAI", api_key,
                    dashscope_normalize(UrlOf(base_url, urls)), NoneVal)

\* the Ollama branch: no key, the endpoint from OLLAMA_BASE_URL or OLLAMA_HOST
ollama_client(env, urls) ==
    LET ollama_host == getenv(env, "OLLAMA_HOST")
        host_url    == IF ollama_host.src = "none" THEN Url("http://localhost:11434", <<>>)
                       ELSE IF ollama_host.src = "empty" THEN Url("http://:11434", <<>>)
                       ELSE Url("http://OLLAMA_HOST:11434", <<>>)
        base_url    == getenv(env, "OLLAMA_BASE_URL")
    IN  Client("ChatOllama", NoneVal,
               IF base_url.src = "none" THEN host_url ELSE UrlOf(base_url, urls),
               NoneVal)

\* the GigaChat branch: GIGACHAT_USER or GIGACHAT_PASSWORD in the environment
\* builds a client without credentials argument, else a key is looked up
gigachat_client(env, api_keys) ==
    IF NonEmpty(getenv(env, "GIGACHAT_USER")) \/ NonEmpty(getenv(env, "GIGACHAT_PASSWORD"))
    THEN Client("GigaChat", NoneVal, NoUrl, NoneVal)
    ELSE LET api_key == PyOr(_get_api_key(env, api_keys, "GIGACHAT_API_KEY", "GigaChat"),
                             getenv(env, "GIGACHAT_CREDENTIALS"))
         IN  IF ~NonEmpty(api_key) THEN ValueError({"GIGACHAT_API_KEY"})
             ELSE Client("GigaChat", api_key, NoUrl, NoneVal)

\* the Azure OpenAI branch: key, endpoint, deployment name, all from the
\* environment, checked in this order
azure_openai_client(env, urls) ==
    LET api_key               == getenv(env, "AZURE_OPENAI_API_KEY")
        azure_endpoint        == getenv(env, "AZURE_OPENAI_ENDPOINT")
        azure_deployment_name == getenv(env, "AZURE_OPENAI_DEPLOYMENT_NAME")
    IN  IF ~NonEmpty(api_key) THEN ValueError({"AZURE_OPENAI_API_KEY"})
        ELSE IF ~NonEmpty(azure_endpoint) THEN ValueError({"AZURE_OPENAI_ENDPOINT"})
        ELSE IF ~NonEmpty(azure_deployment_name)
        THEN ValueError({"AZURE_OPENAI_DEPLOYMENT_NAME"})
        ELSE Client("AzureChatOpenAI", api_key, UrlOf(azure_endpoint, urls),
                    azure_deployment_name)

\* get_model: ModelProvider(label) raises ValueError for an unknown label;
\* a provider without a branch falls off the end and yields None
get_model(model_provider, env, api_keys, urls) ==
    IF model_provider \notin ModelProvider THEN ValueError({})
    ELSE CASE model_provider = "Groq" ->
                keyed_client("ChatGroq", env, api_keys, "GROQ_API_KEY", "Groq", NoUrl)
           [] model_provider = "OpenAI" -> openai_client(env, api_keys, urls)
           [] model_provider = "OpenAI Compatible" ->
                openai_compatible_client(env, api_keys, urls)
           [] model_provider = "IDEALAB" -> idealab_client(env, api_keys, urls)
           [] model_provider = "Dashscope" -> dashscope_client(env, api_keys, urls)
           [] model_provider = "Anthropic" ->
                keyed_client("ChatAnthropic", env, api_keys, "ANTHROPIC_API_KEY",
                             "Anthropic", NoUrl)
           [] model_provider = "DeepSeek" ->
                keyed_client("ChatDeepSeek", env, api_keys, "DEEPSEEK_API_KEY",
                             "DeepSeek", NoUrl)
           [] model_provider = "Google" ->
                keyed_client("ChatGoogleGenerativeAI", env, api_keys, "GOOGLE_API_KEY",
                             "Google", NoUrl)
           [] model_provider = "Ollama" -> ollama_client(env, urls)
           [] model_provider = "OpenRouter" ->
                keyed_client("ChatOpenAI", env, api_keys, "OPENROUTER_API_KEY",
                             "OpenRouter", Url("https://openrouter.ai", <<"api", "v1">>))
           [] model_provider = "xAI" ->
                keyed_client("ChatXAI", env, api_keys, "XAI_API_KEY", "xAI", NoUrl)
           [] model_provider = "GigaChat" -> gigachat_client(env, api_keys)
           [] model_provider = "Azure OpenAI" -> azure_openai_client(env, urls)
           [] OTHER -> ReturnsNone

\* the providers whose branch looks for a credential, and the environment
\* variable each branch asks for first
CredentialedProviders ==
    {"Groq", "OpenAI", "OpenAI Compatible", "IDEALAB", "Dashscope", "Anthropic",
     "DeepSeek", "Google", "OpenRouter", "xAI", "GigaChat", "Azure OpenAI"}

ENV_VAR(p) ==
    CASE p = "Groq" -> "GROQ_API_KEY"
      [] p = "OpenAI" -> "OPENAI_API_KEY"
      [] p = "OpenAI Compatible" -> "OPENAI_COMPATIBLE_API_KEY"
      [] p = "IDEALAB" -> "IDEALAB_API_KEY"
      [] p = "Dashscope" -> "DASHSCOPE_API_KEY"
      [] p = "Anthropic" -> "ANTHROPIC_API_KEY"
      [] p = "DeepSeek" -> "DEEPSEEK_API_KEY"
      [] p = "Google" -> "GOOGLE_API_KEY"
      [] p = "OpenRouter" -> "OPENROUTER_API_KEY"
      [] p = "xAI" -> "XAI_API_KEY"
      [] p = "GigaChat" -> "GIGACHAT_API_KEY"
      [] p = "Azure OpenAI" -> "AZURE_OPENAI_API_KEY"
      [] OTHER -> "none"

\* the providers whose branch normalises a configured base URL, and the
\* api_keys key that branch reads the URL from
UrlProviders == {"OpenAI Compatible", "IDEALAB", "Dashscope"}

BaseUrlKey(p) ==
    CASE p = "OpenAI Compatible" -> "OPENAI_COMPATIBLE_BASE_URL"
      [] p = "IDEALAB" -> "IDEALAB_BASE_URL"
      [] p = "Dashscope" -> "DASHSCOPE_BASE_URL"
      [] OTHER -> "none"

\* the environment variables a provider's branch reads
EnvVarsOf(p) ==
    CASE p = "OpenAI" -> {"OPENAI_API_KEY", "OPENAI_API_BASE"}
      [] p = "OpenAI Compatible" ->
           {"OPENAI_COMPATIBLE_API_KEY", "OPENAI_COMPATIBLE_BASE_URL"}
      [] p = "IDEALAB" ->
           {"IDEALAB_API_KEY", "OPENAI_COMPATIBLE_API_KEY", "IDEALAB_BASE_URL",
            "OPENAI_COMPATIBLE_BASE_URL"}
      [] p = "Dashscope" -> {"DASHSCOPE_API_KEY", "DASHSCOPE_BASE_URL"}
      [] p = "Ollama" -> {"OLLAMA_HOST", "OLLAMA_BASE_URL"}
      [] p = "GigaChat" ->
           {"GIGACHAT_USER", "GIGACHAT_PASSWORD", "GIGACHAT_API_KEY",
            "GIGACHAT_CREDENTIALS"}
      [] p = "Azure OpenAI" ->
           {"AZURE_OPENAI_API_KEY", "AZURE_OPENAI_ENDPOINT",
            "AZURE_OPENAI_DEPLOYMENT_NAME"}
      [] p \in CredentialedProviders -> {ENV_VAR(p)}
      [] OTHER -> {}

\* the api_keys entries a caller may pass for a provider
KeysOf(p) ==
    CASE p = "OpenAI Compatible" ->
           {"OPENAI_COMPATIBLE_API_KEY", "OpenAI Compatible",
            "OPENAI_COMPATIBLE_BASE_URL"}
      [] p = "IDEALAB" ->
           {"IDEALAB_API_KEY", "IDEALAB", "OPENAI_COMPATIBLE_API_KEY",
            "IDEALAB_BASE_URL", "OPENAI_COMPATIBLE_BASE_URL"}
      [] p = "Dashscope" -> {"DASHSCOPE_API_KEY", "Dashscope", "DASHSCOPE_BASE_URL"}
      [] p = "Azure OpenAI" ->
           {"AZURE_OPENAI_API_KEY", "Azure OpenAI", "AZURE_OPENAI_ENDPOINT",
            "AZURE_OPENAI_DEPLOYMENT_NAME"}
      [] p \in CredentialedProviders -> {ENV_VAR(p), p}
      [] OTHER -> {p}

\* one call of get_model(model_name, model_provider, api_keys) in a process
\* whose environment is env
GetModel ==
    /\ mr.pc = "idle"
    /\ \E model_provider \in ModelProvider \cup {UnknownProvider} :
         \E env \in [EnvVarsOf(model_provider) -> SettingStates] :
           \E api_keys \in [KeysOf(model_provider) -> SettingStates] :
             mr' = [pc |-> "done", model_provider |-> model_provider, env |-> env,
                    api_keys |-> api_keys, urls |-> DefaultUrls,
                    result |-> get_model(model_provider, env, api_keys, DefaultUrls)]
    /\ UNCHANGED <<runVars, inv, pr, cat, sy>>

\* one call of get_model for a provider with a configurable endpoint: the key
\* comes from the environment, the base URL is passed in api_keys
GetModelAt ==
    /\ mr.pc = "idle"
    /\ \E model_provider \in UrlProviders : \E base_url \in BaseUrls :
         LET env      == [v \in EnvVarsOf(model_provider) |->
                            IF v = ENV_VAR(model_provider) THEN "set" ELSE "unset"]
             api_keys == [k \in KeysOf(model_provider) |->
                            IF k = BaseUrlKey(model_provider) THEN "set" ELSE "unset"]
             urls     == [DefaultUrls EXCEPT !.api_keys = base_url]
         IN  mr' = [pc |-> "done", model_provider |-> model_provider, env |-> env,
                    api_keys |-> api_keys, urls |-> urls,
                    result |-> get_model(model_provider, env, api_keys, urls)]
    /\ UNCHANGED <<runVars, inv, pr, cat, sy>>

NextModel ==
    \/ GetModel
    \/ GetModelAt

SpecModel == Init /\ [][NextModel]_vars

(***************************************************************************)
(* Claims about the model resolver                                         *)
(***************************************************************************)

\* the finished call's view of its environment and of its api_keys
MrEnv(name) == getenv(mr.env, name)
MrKey(name) == dict_get(mr.api_keys, name)

\* the override for the provider: api_keys[ENV_VAR] or api_keys[label]
MrOverride == PyOr(MrKey(ENV_VAR(mr.model_provider)), MrKey(mr.model_provider))

\* a finished call for a credentialed provider
CredentialedCall == mr.pc = "done" /\ mr.model_provider \in CredentialedProviders

\* the GigaChat branch was satisfied by GIGACHAT_USER / GIGACHAT_PASSWORD
PairPath ==
    /\ mr.model_provider = "GigaChat"
    /\ NonEmpty(MrEnv("GIGACHAT_USER")) \/ NonEmpty(MrEnv("GIGACHAT_PASSWORD"))

\* the other variables a branch accepts a credential from
AlternateVars(p) ==
    CASE p = "IDEALAB" -> {"OPENAI_COMPATIBLE_API_KEY"}
      [] p = "GigaChat" -> {"GIGACHAT_USER", "GIGACHAT_PASSWORD", "GIGACHAT_CREDENTIALS"}
      [] OTHER -> {}

\* a base URL is configured for a branch that insists on one
UrlConfigured ==
    CASE mr.model_provider = "OpenAI Compatible" ->
           \/ NonEmpty(MrKey("OPENAI_COMPATIBLE_BASE_URL"))
           \/ NonEmpty(MrEnv("OPENAI_COMPATIBLE_BASE_URL"))
      [] mr.model_provider = "IDEALAB" ->
           \/ NonEmpty(MrKey("IDEALAB_BASE_URL"))
           \/ NonEmpty(MrEnv("IDEALAB_BASE_URL"))
           \/ NonEmpty(MrKey("OPENAI_COMPATIBLE_BASE_URL"))
           \/ NonEmpty(MrEnv("OPENAI_COMPATIBLE_BASE_URL"))
      [] OTHER -> TRUE

\* C13 (as stated): when the override holds a value for the provider and the
\* environment holds a different one, the client is built with the override.
C13_OverrideFirst ==
    (/\ CredentialedCall
     /\ mr.result.kind = "client"
     /\ NonEmpty(MrOverride)
     /\ NonEmpty(MrEnv(ENV_VAR(mr.model_provider))))
    => mr.result.api_key = MrOverride

\* C13 (amended): the precedence is environment[ENV_VAR], then
\* api_keys[ENV_VAR], then api_keys[provider label], then failure: a client of
\* a credentialed provider is built with the environment's value whenever
\* there is one, with the override only when the environment has none (never
\* for Azure OpenAI), and always with a configured value, never a default
\* (the GigaChat user/password client takes no credential argument).
C13_EnvironmentFirst ==
    (CredentialedCall /\ mr.result.kind = "client" /\ ~PairPath)
    => LET from_env == MrEnv(ENV_VAR(mr.model_provider)) IN
       /\ NonEmpty(from_env) => mr.result.api_key = from_env
       /\ (~NonEmpty(from_env) /\ NonEmpty(MrOverride))
             => /\ mr.result.api_key = MrOverride
                /\ mr.model_provider # "Azure OpenAI"
       /\ NonEmpty(mr.result.api_key)
       /\ mr.result.api_key.src \in {"env", "api_keys"}

C13_Witness ==
    /\ mr.pc = "done"
    /\ mr.model_provider = "Groq"
    /\ MrEnv("GROQ_API_KEY") = Val("env", "GROQ_API_KEY")
    /\ MrKey("GROQ_API_KEY") = Val("api_keys", "GROQ_API_KEY")
    /\ mr.result.kind = "client"
    /\ mr.result.api_key = Val("env", "GROQ_API_KEY")

\* C14 (as stated): for each credentialed provider, with the required
\* environment variable unset and no override, get_model fails with an error
\* naming exactly that variable and builds no client.
C14_NamesExactlyTheVariable ==
    (/\ CredentialedCall
     /\ MrEnv(ENV_VAR(mr.model_provider)) = NoneVal
     /\ \A k \in DOMAIN mr.api_keys : mr.api_keys[k] = "unset")
    => mr.result = ValueError({ENV_VAR(mr.model_provider)})

\* C14 (amended): for each credentialed provider, with the required
\* environment variable, the branch's alternative credential variables and
\* the override all missing, get_model raises an error naming the required
\* variable (IDEALAB: together with OPENAI_COMPATIBLE_API_KEY) and builds no
\* client.
C14_MissingCredentialFails ==
    (/\ CredentialedCall
     /\ ~NonEmpty(MrEnv(ENV_VAR(mr.model_provider)))
     /\ \A v \in AlternateVars(mr.model_provider) : ~NonEmpty(MrEnv(v))
     /\ \A k \in DOMAIN mr.api_keys : ~NonEmpty(MrKey(k)))
    => /\ mr.result.kind = "raised"
       /\ mr.result.names =
            IF mr.model_provider = "IDEALAB"
            THEN {"IDEALAB_API_KEY", "OPENAI_COMPATIBLE_API_KEY"}
            ELSE {ENV_VAR(mr.model_provider)}

C14_Witness ==
    /\ mr.pc = "done"
    /\ mr.model_provider = "IDEALAB"
    /\ \A v \in DOMAIN mr.env : mr.env[v] = "unset"
    /\ \A k \in DOMAIN mr.api_keys : mr.api_keys[k] = "unset"
    /\ mr.result = ValueError({"IDEALAB_API_KEY", "OPENAI_COMPATIBLE_API_KEY"})

\* C15 (as stated): for each credentialed provider, the credential supplied
\* only through api_keys yields a client built with the override value.
C15_OverrideOnlySucceeds ==
    (/\ CredentialedCall
     /\ MrEnv(ENV_VAR(mr.model_provider)) = NoneVal
     /\ NonEmpty(MrOverride))
    => /\ mr.result.kind = "client"
       /\ mr.result.api_key = MrOverride

\* C15 (amended): for each credentialed provider except Azure OpenAI, the
\* credential supplied only through api_keys (under ENV_VAR or the provider
\* label) yields a client built with the override value, provided a base URL
\* is configured for OpenAI Compatible and IDEALAB and the GigaChat
\* user/password variables are not set; Azure OpenAI reads the environment
\* only and fails naming AZURE_OPENAI_API_KEY.
C15_OverrideOnlyExceptAzure ==
    (/\ CredentialedCall
     /\ ~NonEmpty(MrEnv(ENV_VAR(mr.model_provider)))
     /\ NonEmpty(MrOverride))
    => /\ (mr.model_provider # "Azure OpenAI" /\ UrlConfigured /\ ~PairPath)
            => /\ mr.result.kind = "client"
               /\ mr.result.api_key = MrOverride
       /\ mr.model_provider = "Azure OpenAI"
            => mr.result = ValueError({"AZURE_OPENAI_API_KEY"})

C15_Witness ==
    /\ mr.pc = "done"
    /\ mr.model_provider = "OpenAI Compatible"
    /\ MrEnv("OPENAI_COMPATIBLE_API_KEY") = NoneVal
    /\ MrKey("OPENAI_COMPATIBLE_API_KEY") = NoneVal
    /\ MrKey("OpenAI Compatible") = Val("api_keys", "OpenAI Compatible")
    /\ mr.result.kind = "client"
    /\ mr.result.api_key = Val("api_keys", "OpenAI Compatible")

\* C16: Azure OpenAI builds a client only when key, endpoint and deployment
\* name are all present and otherwise names the first missing one; GigaChat
\* builds its user/password client only when both user and password are
\* present.
C16_AllCoordinates ==
    /\ (mr.pc = "done" /\ mr.model_provider = "Azure OpenAI")
         => LET key        == NonEmpty(MrEnv("AZURE_OPENAI_API_KEY"))
                endpoint   == NonEmpty(MrEnv("AZURE_OPENAI_ENDPOINT"))
                deployment == NonEmpty(MrEnv("AZURE_OPENAI_DEPLOYMENT_NAME"))
            IN  /\ mr.result.kind = "client" <=> (key /\ endpoint /\ deployment)
                /\ ~key => mr.result = ValueError({"AZURE_OPENAI_API_KEY"})
                /\ (key /\ ~endpoint)
                     => mr.result = ValueError({"AZURE_OPENAI_ENDPOINT"})
                /\ (key /\ endpoint /\ ~deployment)
                     => mr.result = ValueError({"AZURE_OPENAI_DEPLOYMENT_NAME"})
    /\ (/\ mr.pc = "done"
        /\ mr.model_provider = "GigaChat"
        /\ mr.result.kind = "client"
        /\ ~NonEmpty(mr.result.api_key))
         => /\ NonEmpty(MrEnv("GIGACHAT_USER"))
            /\ NonEmpty(MrEnv("GIGACHAT_PASSWORD"))

\* how often a segment occurs in a path
RECURSIVE Count(_, _)
Count(g, segs) ==
    IF segs = <<>> THEN 0
    ELSE (IF segs[1] = g THEN 1 ELSE 0) + Count(g, Tail(segs))

\* a finished call whose base URL came from api_keys and reached the client
UrlCall ==
    /\ mr.pc = "done"
    /\ mr.model_provider \in UrlProviders
    /\ NonEmpty(MrKey(BaseUrlKey(mr.model_provider)))
    /\ mr.result.kind = "client"

\* C17 (as stated): the URL passed to the client has no trailing
\* /chat/completions and exactly one /v1 segment, its last.
C17_ExactlyOneVersionSegment ==
    UrlCall
    => LET out == mr.result.base_url.segs IN
       /\ ~endswith(out, <<"chat", "completions">>)
       /\ Count("v1", out) = 1
       /\ endswith(out, <<"v1">>)

\* C17 (amended): the URL passed to the client is the given URL with its
\* trailing slashes removed and then: for OpenAI Compatible and IDEALAB, when
\* it ends in /v1/chat/completions, with /chat/completions removed;
\* otherwise, and always for Dashscope, unchanged when it ends in /v1 and with
\* /v1 appended when it does not.  It always ends in /v1; nothing else of the
\* path is removed.
C17_EndsInVersionSegment ==
    UrlCall
    => LET given == mr.urls.api_keys
           s     == rstrip(given.segs)
           out   == mr.result.base_url
           strip == /\ mr.model_provider # "Dashscope"
                    /\ endswith(s, <<"v1", "chat", "completions">>)
       IN  /\ out.base = given.base
           /\ endswith(out.segs, <<"v1">>)
           /\ strip => out.segs = SubSeq(s, 1, Len(s) - 2)
           /\ (~strip /\ endswith(s, <<"v1">>)) => out.segs = s
           /\ (~strip /\ ~endswith(s, <<"v1">>)) => out.segs = Append(s, "v1")

C17_Witness ==
    /\ UrlCall
    /\ mr.model_provider = "Dashscope"
    /\ mr.urls.api_keys.segs = <<"v1", "chat", "completions">>
    /\ mr.result.base_url.segs = <<"v1", "chat", "completions", "v1">>

(***************************************************************************)
(* The model catalog: src/app/backend/services/model_list_service.py and   *)
(* src/app/backend/routes/language_models.py                               *)
(***************************************************************************)

\* most requests and table edits in one behaviour
MaxOps == 4

\* the provider whose rows a refresh replaces
OpenRouter == "OpenRouter"

\* an entry of api_models.json: an object with the three fields ("" when a
\* field is missing), or something that is not an object
StaticItem(display_name, model_name, provider) ==
    [is_dict |-> TRUE, display_name |-> display_name, model_name |-> model_name,
     provider |-> provider]
NotAnObject ==
    [is_dict |-> FALSE, display_name |-> "", model_name |-> "", provider |-> ""]

\* api_models.json: missing, or a list of entries
NoFile == [exists |-> FALSE, data |-> <<>>]
File(data) == [exists |-> TRUE, data |-> data]

\* the static sources the service may be deployed with
StaticSources ==
    {NoFile,
     File(<<>>),
     File(<<StaticItem("GPT", "gpt", "OpenAI"), NotAnObject,
            StaticItem("Router", "router", "")>>),
     File(<<StaticItem("Router", "router", ""),
            StaticItem("", "nameless", "OpenAI")>>)}

\* an entry of the fetched body's data list ("" when a field is missing)
Fetched(id, name) == [id |-> id, name |-> name]

\* the data lists a fetch may answer with
FetchedLists ==
    {<<>>,
     <<Fetched("or/a", "A")>>,
     <<Fetched("or/b", ""), Fetched("", "ghost"), Fetched("or/a", "A")>>}

\* a row of llm_models
Row(id, display_name, model_name, provider, sort_order, source) ==
    [id |-> id, display_name |-> display_name, model_name |-> model_name,
     provider |-> provider, sort_order |-> sort_order, is_enabled |-> TRUE,
     source |-> source]

\* the id the table assigns to the next inserted row
NextId(rows) ==
    IF rows = {} THEN 1
    ELSE 1 + (CHOOSE m \in {r.id : r \in rows} : \A r \in rows : r.id <= m)

\* ORDER BY sort_order, id
Before(r, q) ==
    \/ r.sort_order < q.sort_order
    \/ r.sort_order = q.sort_order /\ r.id < q.id

RECURSIVE OrderBy(_)
OrderBy(rows) ==
    IF rows = {} THEN <<>>
    ELSE LET first == CHOOSE r \in rows : \A q \in rows \ {r} : Before(r, q)
         IN  <<first>> \o OrderBy(rows \ {first})

\* a variant of the query without the is_enabled filter
EnabledRowsAll(rows) == OrderBy(rows)

\* the query of get_all_models_from_db: enabled rows in order
EnabledRows(rows) == OrderBy({r \in rows : r.is_enabled})

\* get_all_models_from_db: the three listed fields of each selected row
get_all_models_from_db(rows) ==
    [i \in DOMAIN EnabledRows(rows) |->
        [display_name |-> EnabledRows(rows)[i].display_name,
         model_name   |-> EnabledRows(rows)[i].model_name,
         provider     |-> EnabledRows(rows)[i].provider]]

\* the entries of the static list that become rows: objects with a
\* display_name and a model_name
SeedValid(data) ==
    {i \in DOMAIN data :
        data[i].is_dict /\ data[i].display_name # "" /\ data[i].model_name # ""}

\* the rows seed_from_json_if_empty adds: sort_order is the entry's index in
\* the file, the provider defaults to OpenRouter
SeedRows(rows, data) ==
    {Row(NextId(rows) + Cardinality({j \in SeedValid(data) : j < i}),
         data[i].display_name, data[i].model_name,
         IF data[i].provider = "" THEN OpenRouter ELSE data[i].provider,
         i - 1, "static") : i \in SeedValid(data)}

\* the fetched entries with an id
Usable(m) == m.id # ""

\* to_insert of refresh_openrouter_models: id as model_name, name (or the
\* id) as display_name
ToInsert(data) ==
    LET usable == SelectSeq(data, Usable) IN
    [i \in DOMAIN usable |->
        [model_name   |-> usable[i].id,
         display_name |-> IF usable[i].name = "" THEN usable[i].id ELSE usable[i].name,
         provider     |-> OpenRouter]]

\* a variant of the refresh's delete that spares nothing
KeptByRefreshNone(rows) == {}

\* the rows the refresh's delete leaves in the table
KeptByRefresh(rows) == {r \in rows : r.provider # OpenRouter}

\* the rows the refresh adds
RefreshRows(rows, to_insert) ==
    {Row(NextId(rows) + i - 1, to_insert[i].display_name, to_insert[i].model_name,
         OpenRouter, i - 1, "openrouter") : i \in DOMAIN to_insert}

\* a variant in which the old rows are already gone when the fetch fails
OnFetchFailureDeleted(rows) == KeptByRefresh(rows)

\* the table a failed fetch leaves: the fetch precedes every statement on
\* the table, so nothing was deleted or added
OnFetchFailure(rows) == rows

\* a variant of the seed's guard that seeds whenever no static row is there
SeedWantedNoStatic(count, rows) == \A r \in rows : r.source # "static"

\* the seed's guard: `if count > 0: return 0`
SeedWanted(count, rows) == count = 0

\* the request workers sharing the table
WorkerIds == {"w1"}

\* a worker between requests
SessIdle ==
    [pc |-> "idle", before |-> {}, count |-> 0, seed_ret |-> 0, mid |-> {},
     data |-> <<>>, to_insert |-> <<>>, deleted |-> 0,
     ret |-> [deleted |-> 0, inserted |-> 0], picked |-> <<>>, models |-> <<>>,
     after |-> {}, raised |-> "none", torn |-> FALSE]

\* a worker is not inside a request
AtRest(w) == cat.sess[w].pc \in {"idle", "listed", "refreshed", "failed"}

\* a refresh has committed the deletion of old rows and has not committed
\* the fetched rows it is to insert
HalfReplaced(w) ==
    /\ \/ cat.sess[w].pc = "insert"
       \/ cat.sess[w].pc = "failed" /\ cat.sess[w].raised = "insert"
    /\ cat.sess[w].deleted > 0
    /\ cat.sess[w].to_insert # <<>>

\* the service comes up on the freshly migrated, empty table
Startup(static) ==
    /\ cat.pc = "idle"
    /\ cat' = [pc |-> "up", static |-> static, rows |-> {},
               sess |-> [w \in WorkerIds |-> SessIdle],
               ops |-> 0, seeds |-> 0, emptied |-> 0]
    /\ UNCHANGED <<runVars, inv, pr, mr, sy>>

\* a list request starts: _cloud_models calls seed_from_json_if_empty, whose
\* first statement counts the rows; a non-empty table or a missing file makes
\* it return 0
ListCount(w) ==
    /\ cat.pc = "up"
    /\ AtRest(w)
    /\ cat.ops < MaxOps
    /\ LET count == Cardinality(cat.rows)
           go    == SeedWanted(count, cat.rows) /\ cat.static.exists
       IN  cat' = [cat EXCEPT
                     !.ops = @ + 1,
                     !.sess[w] = [SessIdle EXCEPT
                                    !.pc = IF go THEN "seed_insert" ELSE "query",
                                    !.before = cat.rows,
                                    !.count = count,
                                    !.mid = cat.rows]]
    /\ UNCHANGED <<runVars, inv, pr, mr, sy>>

\* seed_from_json_if_empty adds the static rows, commits and returns len(data)
SeedInsert(w) ==
    /\ cat.pc = "up"
    /\ cat.sess[w].pc = "seed_insert"
    /\ LET new == SeedRows(cat.rows, cat.static.data) IN
       cat' = [cat EXCEPT
                 !.rows = cat.rows \cup new,
                 !.seeds = IF new = {} THEN @ ELSE @ + 1,
                 !.sess[w].pc = "query",
                 !.sess[w].seed_ret = Len(cat.static.data),
                 !.sess[w].mid = cat.rows \cup new]
    /\ UNCHANGED <<runVars, inv, pr, mr, sy>>

\* _cloud_models goes on with get_all_models_from_db and returns its list
Query(w) ==
    /\ cat.pc = "up"
    /\ cat.sess[w].pc = "query"
    /\ cat' = [cat EXCEPT
                 !.sess[w].pc = "listed",
                 !.sess[w].picked = EnabledRows(cat.rows),
                 !.sess[w].models = get_all_models_from_db(cat.rows),
                 !.sess[w].after = cat.rows,
                 !.sess[w].torn = \E v \in DOMAIN cat.sess : HalfReplaced(v)]
    /\ UNCHANGED <<runVars, inv, pr, mr, sy>>

\* a refresh request starts with the fetch: a failure is logged and raised
\* again, a body is reduced to to_insert
RefreshFetch(w) ==
    /\ cat.pc = "up"
    /\ AtRest(w)
    /\ cat.ops < MaxOps
    /\ \/ cat' = [cat EXCEPT !.ops = @ + 1,
                             !.rows = OnFetchFailure(cat.rows),
                             !.sess[w] = [SessIdle EXCEPT
                                            !.pc = "failed",
                                            !.raised = "fetch",
                                            !.before = cat.rows,
                                            !.after = OnFetchFailure(cat.rows)]]
       \/ \E data \in FetchedLists :
            cat' = [cat EXCEPT !.ops = @ + 1,
                               !.sess[w] = [SessIdle EXCEPT
                                              !.pc = "delete",
                                              !.before = cat.rows,
                                              !.data = data,
                                              !.to_insert = ToInsert(data)]]
    /\ UNCHANGED <<runVars, inv, pr, mr, sy>>

\* the refresh deletes the OpenRouter rows and commits
DeleteCommit(w) ==
    /\ cat.pc = "up"
    /\ cat.sess[w].pc = "delete"
    /\ cat' = [cat EXCEPT
                 !.rows = KeptByRefresh(cat.rows),
                 !.sess[w].pc = "insert",
                 !.sess[w].deleted = Cardinality(cat.rows \ KeptByRefresh(cat.rows))]
    /\ UNCHANGED <<runVars, inv, pr, mr, sy>>

\* the refresh inserts the fetched rows, commits and returns
\* (deleted, len(to_insert))
InsertCommit(w) ==
    /\ cat.pc = "up"
    /\ cat.sess[w].pc = "insert"
    /\ LET rows == cat.rows \cup RefreshRows(cat.rows, cat.sess[w].to_insert) IN
       cat' = [cat EXCEPT
                 !.rows = rows,
                 !.emptied = IF rows = {} THEN @ + 1 ELSE @,
                 !.sess[w].pc = "refreshed",
                 !.sess[w].ret = [deleted  |-> cat.sess[w].deleted,
                                  inserted |-> Len(cat.sess[w].to_insert)],
                 !.sess[w].after = rows]
    /\ UNCHANGED <<runVars, inv, pr, mr, sy>>

\* an operator switches a row off in the table (is_enabled is a column of
\* llm_models; the service itself only ever writes TRUE)
AdminDisable(id) ==
    /\ cat.pc = "up"
    /\ cat.ops < MaxOps
    /\ \A w \in WorkerIds : AtRest(w)
    /\ \E r \in cat.rows :
         /\ r.id = id
         /\ r.is_enabled
         /\ cat' = [cat EXCEPT !.ops = @ + 1,
                               !.rows = (cat.rows \ {r}) \cup
                                        {[r EXCEPT !.is_enabled = FALSE]}]
    /\ UNCHANGED <<runVars, inv, pr, mr, sy>>

\* the ids a table of this size can hold
RowIds == 1 .. (3 * MaxOps)

NextCatalog ==
    \/ \E static \in StaticSources : Startup(static)
    \/ \E w \in WorkerIds : ListCount(w)
    \/ \E w \in WorkerIds : SeedInsert(w)
    \/ \E w \in WorkerIds : Query(w)
    \/ \E w \in WorkerIds : RefreshFetch(w)
    \/ \E w \in WorkerIds : DeleteCommit(w)
    \/ \E w \in WorkerIds : InsertCommit(w)
    \/ \E id \in RowIds : AdminDisable(id)

SpecCatalog == Init /\ [][NextCatalog]_vars

\* two server processes working on the same table
ServerProcesses == {"w1", "w2"}

\* both processes come up on the freshly migrated, empty table
StartupShared(static) ==
    /\ cat.pc = "idle"
    /\ cat' = [pc |-> "up", static |-> static, rows |-> {},
               sess |-> [w \in ServerProcesses |-> SessIdle],
               ops |-> 0, seeds |-> 0, emptied |-> 0]
    /\ UNCHANGED <<runVars, inv, pr, mr, sy>>

\* the refresh's inserts or its second commit fail: the error leaves
\* refresh_openrouter_models, the uncommitted rows are dropped with the
\* session, the committed deletion stays
InsertFail(w) ==
    /\ cat.pc = "up"
    /\ cat.sess[w].pc = "insert"
    /\ cat' = [cat EXCEPT !.sess[w].pc = "failed",
                          !.sess[w].raised = "insert",
                          !.sess[w].after = cat.rows]
    /\ UNCHANGED <<runVars, inv, pr, mr, sy>>

NextCatalogShared ==
    \/ \E static \in StaticSources : StartupShared(static)
    \/ \E w \in ServerProcesses : ListCount(w)
    \/ \E w \in ServerProcesses : SeedInsert(w)
    \/ \E w \in ServerProcesses : Query(w)
    \/ \E w \in ServerProcesses : RefreshFetch(w)
    \/ \E w \in ServerProcesses : DeleteCommit(w)
    \/ \E w \in ServerProcesses : InsertCommit(w)
    \/ \E w \in ServerProcesses : InsertFail(w)

SpecCatalogShared == Init /\ [][NextCatalogShared]_vars

(***************************************************************************)
(* Claims about the model catalog                                          *)
(***************************************************************************)

\* a listed entry of the refreshed provider
IsOpenRouter(m) == m.provider = OpenRouter

\* C18: the listing returned by a list request holds exactly the enabled
\* rows of the table it was read from, each once, in ascending
\* (sort_order, id) order, and no disabled row.
C18_EnabledInOrder ==
    cat.pc = "up" =>
    \A w \in WorkerIds :
      cat.sess[w].pc = "listed" =>
        LET picked == cat.sess[w].picked
            models == cat.sess[w].models
            table  == cat.sess[w].after
        IN  /\ {picked[i] : i \in DOMAIN picked} = {r \in table : r.is_enabled}
            /\ \A i, j \in DOMAIN picked :
                 i < j => /\ picked[i].id # picked[j].id
                          /\ \/ picked[i].sort_order < picked[j].sort_order
                             \/ /\ picked[i].sort_order = picked[j].sort_order
                                /\ picked[i].id < picked[j].id
            /\ Len(models) = Len(picked)
            /\ \A i \in DOMAIN picked :
                 /\ picked[i].is_enabled
                 /\ models[i] = [display_name |-> picked[i].display_name,
                                 model_name   |-> picked[i].model_name,
                                 provider     |-> picked[i].provider]

C18_Witness ==
    /\ cat.pc = "up"
    /\ \E w \in WorkerIds :
         /\ cat.sess[w].pc = "listed"
         /\ \E r \in cat.sess[w].after : ~r.is_enabled
         /\ Len(cat.sess[w].picked) >= 2
         /\ cat.sess[w].picked[1].sort_order = cat.sess[w].picked[2].sort_order

\* C19 (as stated): over any sequence of list and refresh requests the
\* static rows are inserted at most once.
C19_SeededOnce == cat.pc = "up" => cat.seeds <= 1

\* C19 (amended): seed_from_json_if_empty inserts rows only into an empty
\* table; on a non-empty table it returns 0 and leaves every row unchanged;
\* the table never holds a static entry twice; the static rows are inserted
\* again only after a refresh has left the table empty.
C19_SeedOnlyWhenEmpty ==
    cat.pc = "up" =>
    /\ \A w \in WorkerIds :
         cat.sess[w].pc \in {"query", "listed"} =>
           /\ cat.sess[w].before # {} =>
                /\ cat.sess[w].seed_ret = 0
                /\ cat.sess[w].mid = cat.sess[w].before
           /\ cat.sess[w].mid # cat.sess[w].before => cat.sess[w].before = {}
    /\ \A r, q \in cat.rows :
         (r.source = "static" /\ q.source = "static" /\ r.sort_order = q.sort_order)
           => r = q
    /\ cat.seeds <= 1 + cat.emptied

C19_Witness ==
    /\ cat.pc = "up"
    /\ cat.seeds = 2
    /\ cat.emptied = 1
    /\ \E w \in WorkerIds :
         /\ cat.sess[w].pc = "listed"
         /\ cat.sess[w].before = {}
         /\ cat.sess[w].mid # {}

\* C20: a successful refresh on a table with d OpenRouter rows and a fetch
\* of n usable entries returns (d, n); afterwards the table lists exactly the
\* n fetched entries for OpenRouter, in the fetched order, and the rows of
\* every other provider are the ones it held before.
C20_RefreshReplaces ==
    cat.pc = "up" =>
    \A w \in WorkerIds :
      cat.sess[w].pc = "refreshed" =>
        LET before  == cat.sess[w].before
            after   == cat.sess[w].after
            usable  == SelectSeq(cat.sess[w].data, Usable)
            listing == SelectSeq(get_all_models_from_db(after), IsOpenRouter)
        IN  /\ cat.sess[w].ret.deleted =
                 Cardinality({r \in before : r.provider = OpenRouter})
            /\ cat.sess[w].ret.inserted = Len(usable)
            /\ Cardinality({r \in after : r.provider = OpenRouter}) = Len(usable)
            /\ Len(listing) = Len(usable)
            /\ \A i \in DOMAIN usable :
                 /\ listing[i].model_name = usable[i].id
                 /\ listing[i].display_name =
                      IF usable[i].name = "" THEN usable[i].id ELSE usable[i].name
            /\ {r \in after : r.provider # OpenRouter} =
                 {r \in before : r.provider # OpenRouter}

C20_Witness ==
    /\ cat.pc = "up"
    /\ \E w \in WorkerIds :
         /\ cat.sess[w].pc = "refreshed"
         /\ cat.sess[w].ret = [deleted |-> 1, inserted |-> 2]
         /\ \E r \in cat.sess[w].after : r.provider # OpenRouter
         /\ \E r \in cat.sess[w].before : r.provider = OpenRouter

\* C21: when the fetch of a refresh fails, the error is raised to the caller
\* and the table is exactly the one the call found: no row of any provider
\* was deleted or inserted.
C21_FetchFailureLeavesTable ==
    cat.pc = "up" =>
    \A w \in DOMAIN cat.sess :
      (cat.sess[w].pc = "failed" /\ cat.sess[w].raised = "fetch") =>
        /\ cat.sess[w].after = cat.sess[w].before
        /\ cat.sess[w].ret = [deleted |-> 0, inserted |-> 0]
        /\ cat.sess[w].deleted = 0

C21_Witness ==
    /\ cat.pc = "up"
    /\ \E w \in DOMAIN cat.sess :
         /\ cat.sess[w].pc = "failed"
         /\ cat.sess[w].raised = "fetch"
         /\ \E r \in cat.sess[w].before : r.provider = OpenRouter
         /\ \E r \in cat.sess[w].before : r.provider # OpenRouter
         /\ cat.rows = cat.sess[w].before

\* C22: no committed state has the provider's old rows deleted and the
\* fetched rows not yet inserted: no list request reads the table in such a
\* state and no failure after the fetch leaves it behind.
C22_ReplacedInOneStep ==
    cat.pc = "up" =>
    \A w \in DOMAIN cat.sess :
      /\ cat.sess[w].pc = "listed" => ~cat.sess[w].torn
      /\ (cat.sess[w].pc = "failed" /\ cat.sess[w].raised = "insert")
           => ~HalfReplaced(w)

\* C30: the table never holds the same static entry twice, whatever the
\* interleaving of two list requests or of a list request and a refresh.
C30_StaticRowsOnce ==
    cat.pc = "up" =>
    \A r, q \in cat.rows :
      (r.source = "static" /\ q.source = "static" /\ r.sort_order = q.sort_order)
        => r = q

\* C27: the count seed_from_json_if_empty returns is the number of rows the
\* call added to the table, whatever the entries of the static source.
C27_SeedReturnsInserted ==
    cat.pc = "up" =>
    \A w \in DOMAIN cat.sess :
      cat.sess[w].pc \in {"query", "listed"}
        => cat.sess[w].seed_ret
             = Cardinality(cat.sess[w].mid \ cat.sess[w].before)

\* C28: for a member of ModelProvider get_model raises or returns a client,
\* never None; for a label outside the enumeration it raises and no client
\* is constructed.
C28_NeverNone ==
    mr.pc = "done" =>
        /\ mr.model_provider \in ModelProvider
             => mr.result.kind \in {"client", "raised"}
        /\ mr.model_provider \notin ModelProvider
             => mr.result.kind = "raised"

(***************************************************************************)
(* Properties of the result of a run                                       *)
(***************************************************************************)
\* the content of the last message of the final state
LastContent == messages[Len(messages)].content

\* the payload of the last message carries a report that is a non-blank string
PayloadHasReport ==
    LET payload == parse_hedge_fund_response(LastContent) IN
    /\ payload.tag = "obj"
    /\ "decisions" \in DOMAIN payload.fields
    /\ "report" \in DOMAIN payload.fields
    /\ payload.fields["report"].tag = "str"
    /\ payload.fields["report"].s \notin {"", " "}

C24_OutputsUnmodified ==
    pc = "returned" =>
        /\ outcome.analyst_signals = analyst_signals
        /\ LET payload == parse_hedge_fund_response(LastContent) IN
           (/\ payload.tag = "obj"
            /\ "decisions" \in DOMAIN payload.fields
            /\ payload.fields["decisions"].tag = "obj")
             => /\ outcome.decisions.tag = "obj"
                /\ DOMAIN outcome.decisions.fields
                     = DOMAIN payload.fields["decisions"].fields
                /\ \A t \in tickers :
                     outcome.decisions.fields[t]
                       = payload.fields["decisions"].fields[t]

C24_Witness ==
    /\ pc = "returned"
    /\ tickers = TickerUniverse
    /\ outcome.decisions = Decisions(tickers, "buy")
    /\ DOMAIN outcome.analyst_signals # {}
    /\ outcome.analyst_signals = analyst_signals

\* C25: whatever the content of the final message, nothing raises between
\* the end of the graph run and the return, and the decisions returned are a
\* mapping.
C25_MalformedNeverCrashes ==
    /\ outcome.error # "AttributeError"
    /\ pc = "returned" => outcome.decisions.tag = "obj"

\* C29: while the run is under way the indicator is started and not stopped;
\* on every exit it has been stopped exactly once; once stopped, no node
\* starts or finishes and the indicator is not stopped again.
C29_StoppedOnce ==
    /\ [](/\ pc \in {"running", "invoked"}
             => progress = [started |-> 1, stopped |-> 0]
          /\ pc \in {"returned", "raised"}
             => progress = [started |-> 1, stopped |-> 1])
    /\ [][progress.stopped >= 1 => (runs' = runs /\ progress' = progress)]_vars

C29_Witness ==
    /\ pc = "raised"
    /\ synth = [calls |-> 1, how |-> "error"]
    /\ progress = [started |-> 1, stopped |-> 1]

(***************************************************************************)
(* The prompt sync script: sync_prompts_to_langfuse.main                   *)
(***************************************************************************)
LABEL == "production"

\* the variable names _langfuse_content translates, in its order
SyncVars ==
    <<"ticker", "analysis_data", "facts", "confidence", "signals", "allowed",
      "context", "company_context_block">>

\* the characters of a registered content: braces, names and text are tokens
Tokens(content) ==
    CASE content = "{ticker} {facts}" ->
            <<"{", "ticker", "}", " ", "{", "facts", "}">>
      [] content = "{signals} {allowed}" ->
            <<"{", "signals", "}", " ", "{", "allowed", "}">>
      [] content = "{context}" -> <<"{", "context", "}">>
      [] OTHER -> <<content, "{", "{", "json", "}", "}">>

\* str.replace: every occurrence of old, left to right, without overlap
RECURSIVE replace(_, _, _)
replace(s, old, new) ==
    IF Len(s) < Len(old) THEN s
    ELSE IF SubSeq(s, 1, Len(old)) = old
         THEN new \o replace(SubSeq(s, Len(old) + 1, Len(s)), old, new)
         ELSE <<Head(s)>> \o replace(Tail(s), old, new)

\* the loop of _langfuse_content from its i-th variable on
RECURSIVE LangfuseContentFrom(_, _)
LangfuseContentFrom(content, i) ==
    IF i > Len(SyncVars) THEN content
    ELSE LangfuseContentFrom(
             replace(content, <<"{", SyncVars[i], "}">>,
                     <<"{", "{", SyncVars[i], "}", "}">>), i + 1)

\* {var} becomes {{var}} for every variable of the fixed set
_langfuse_content(content) == LangfuseContentFrom(content, 1)

\* the registry's messages in the remote form
_local_prompt_messages(msgs) ==
    [i \in DOMAIN msgs |->
        [role |-> msgs[i].role,
         content |-> _langfuse_content(Tokens(msgs[i].content))]]

\* an entry of a remote prompt: a chat message, a placeholder entry, an entry
\* without a type, or a character of a text prompt
Entry(type, role, content) == [type |-> type, role |-> role, content |-> content]
Typed(type, msgs) ==
    [i \in DOMAIN msgs |-> Entry(type, msgs[i].role, msgs[i].content)]
PlaceholderEntry == Entry("placeholder", "", <<>>)
Character == Entry("none", "", <<>>)

\* what get_prompt(name, label) answers: nothing (it raises) or a client
NoPrompt == [found |-> FALSE, label |-> "none", prompt |-> <<>>]
PromptClient(label, prompt) == [found |-> TRUE, label |-> label, prompt |-> prompt]

\* the production versions a name may have on the remote side
RemoteForms ==
    {"missing", "text", "same", "untranslated", "role", "shorter",
     "with_placeholder", "placeholders_only", "untyped"}

Production(name, form) ==
    LET local == _local_prompt_messages(DEFAULT_PROMPTS[name])
        raw   == [i \in DOMAIN DEFAULT_PROMPTS[name] |->
                    [role |-> DEFAULT_PROMPTS[name][i].role,
                     content |-> Tokens(DEFAULT_PROMPTS[name][i].content)]]
    IN CASE form = "missing" -> NoPrompt
         [] form = "text" -> PromptClient(LABEL, <<Character, Character>>)
         [] form = "same" -> PromptClient(LABEL, Typed("message", local))
         [] form = "untranslated" -> PromptClient(LABEL, Typed("message", raw))
         [] form = "role" ->
              PromptClient(LABEL, Typed("message",
                  [local EXCEPT ![Len(local)].role = "assistant"]))
         [] form = "shorter" ->
              PromptClient(LABEL, Typed("message", SubSeq(local, 1, Len(local) - 1)))
         [] form = "with_placeholder" ->
              PromptClient(LABEL, Typed("message", local) \o <<PlaceholderEntry>>)
         [] form = "placeholders_only" -> PromptClient(LABEL, <<PlaceholderEntry>>)
         [] form = "untyped" -> PromptClient(LABEL, Typed("none", local))

\* a list of messages, or Python's None
NoMessages == [some |-> FALSE, list |-> <<>>]
Messages(l) == [some |-> TRUE, list |-> l]

IsMessage(m) == m.type = "message"

\* the {role, content} of the entries of type "message"; None if there is none
_remote_prompt_messages(pf) ==
    LET out == SelectSeq(pf.prompt, IsMessage) IN
    IF out = <<>> THEN NoMessages
    ELSE Messages([i \in DOMAIN out |->
                      [role |-> out[i].role, content |-> out[i].content]])

\* a variant that compares the contents only
_prompt_messages_equalContents(a, b) ==
    /\ Len(a) = Len(b)
    /\ \A i \in DOMAIN a : a[i].content = b[i].content

\* same length, and role and content equal pair by pair
_prompt_messages_equal(a, b) ==
    /\ Len(a) = Len(b)
    /\ \A i \in DOMAIN a : a[i].role = b[i].role /\ a[i].content = b[i].content

\* the order of the registry's entries
SyncOrder ==
    <<"hedge-fund/warren_buffett", "hedge-fund/portfolio_manager",
      "hedge-fund/final_report">>

\* main up to the loop: without both keys the sync is skipped with exit code 0
SyncStart ==
    /\ sy.pc = "idle"
    /\ \E public_key \in BOOLEAN, secret_key \in BOOLEAN :
       \E form \in [PROMPT_NAMES -> RemoteForms] :
         sy' = [pc |-> IF public_key /\ secret_key THEN "loop" ELSE "done",
                configured |-> public_key /\ secret_key,
                form |-> form, i |-> 1, attempted |-> {}, created |-> {},
                skipped |-> {}, ret |-> 0]
    /\ UNCHANGED <<runVars, inv, pr, mr, cat>>

\* one pass of the loop: get_prompt, the comparison, and create_prompt unless
\* the prompt is unchanged; a failing create_prompt ends main with 1
SyncStep ==
    /\ sy.pc = "loop"
    /\ sy.i <= Len(SyncOrder)
    /\ LET name   == SyncOrder[sy.i]
           local  == _local_prompt_messages(DEFAULT_PROMPTS[name])
           pf     == Production(name, sy.form[name])
           remote == _remote_prompt_messages(pf)
       IN IF pf.found /\ remote.some /\ _prompt_messages_equal(local, remote.list)
          THEN sy' = [sy EXCEPT !.skipped = @ \cup {name}, !.i = @ + 1]
          ELSE \E ok \in BOOLEAN :
                 sy' = IF ok
                       THEN [sy EXCEPT !.attempted = @ \cup {name},
                                       !.created = @ \cup {name}, !.i = @ + 1]
                       ELSE [sy EXCEPT !.attempted = @ \cup {name},
                                       !.pc = "done", !.ret = 1]
    /\ UNCHANGED <<runVars, inv, pr, mr, cat>>

\* the loop is through: main returns 0
SyncEnd ==
    /\ sy.pc = "loop"
    /\ sy.i > Len(SyncOrder)
    /\ sy' = [sy EXCEPT !.pc = "done", !.ret = 0]
    /\ UNCHANGED <<runVars, inv, pr, mr, cat>>

NextSync ==
    \/ SyncStart
    \/ SyncStep
    \/ SyncEnd

SpecSync == Init /\ [][NextSync]_vars

\* the production version of a name is missing, has no chat message, or its
\* messages are not the local ones with every {var} of the fixed set as {{var}}
NeedsPush(name) ==
    LET pf   == Production(name, sy.form[name])
        msgs == SelectSeq(pf.prompt, IsMessage)
    IN \/ ~pf.found
       \/ msgs = <<>>
       \/ [i \in DOMAIN msgs |-> [role |-> msgs[i].role, content |-> msgs[i].content]]
            # _local_prompt_messages(DEFAULT_PROMPTS[name])

\* the names the loop has been through
Examined == sy.attempted \cup sy.skipped

\* C26 as stated: when the sync has run, a registered prompt was pushed if and
\* only if its production version is missing, not a chat prompt or not equal
\* to the local messages.
C26_PushedIffChanged ==
    (sy.pc = "done" /\ sy.configured) =>
        \A name \in PROMPT_NAMES : name \in sy.attempted <=> NeedsPush(name)

\* C26: every prompt the sync examines is pushed if and only if its production
\* version is missing, has no chat message or differs from the translated
\* local messages, so an unchanged prompt is never pushed; the prompts are
\* examined in the registry's order up to the first push that fails, and none
\* is examined without both keys.
C26_PushedOnlyIfChanged ==
    sy.pc \in {"loop", "done"} =>
        /\ \A name \in sy.attempted : NeedsPush(name)
        /\ \A name \in sy.skipped : ~NeedsPush(name)
        /\ sy.attempted \cap sy.skipped = {}
        /\ sy.created \subseteq sy.attempted
        /\ ~sy.configured => Examined = {}
        /\ (sy.pc = "done" /\ sy.configured /\ sy.ret = 0)
             => Examined = PROMPT_NAMES /\ sy.created = sy.attempted
        /\ (sy.pc = "done" /\ sy.ret = 1)
             => /\ Cardinality(sy.attempted \ sy.created) = 1
                /\ Examined = {SyncOrder[j] : j \in 1..sy.i}
        /\ sy.pc = "loop" => Examined = {SyncOrder[j] : j \in 1..(sy.i - 1)}

C26_Witness ==
    /\ sy.pc = "done"
    /\ sy.ret = 0
    /\ sy.form["hedge-fund/warren_buffett"] = "untranslated"
    /\ sy.form["hedge-fund/portfolio_manager"] = "same"
    /\ sy.form["hedge-fund/final_report"] = "with_placeholder"
    /\ sy.attempted = {"hedge-fund/warren_buffett"}
    /\ sy.skipped = {"hedge-fund/portfolio_manager", "hedge-fund/final_report"}

====
